---- MODULE Spec2Model ----
\* Routing-table minimisation with bit-field integration: the pair minimiser
\* (pair_minimize.h, routing_table.h) and the sorter/searcher coordinator
\* (bit_field_sorter_and_searcher.c).
EXTENDS Integers, Sequences, FiniteSets, TLC

VARIABLES
    \* ---- pair minimiser (one compressor core running minimise_run) ----
    table,              \* the routing table being minimised (entries 0..n-1)
    input_table,        \* the table as handed to minimise_run
    routes,             \* routes[] prefix of length routes_count
    routes_frequency,   \* routes_frequency[] prefix of length routes_count
    write_index,
    remaining_index,
    left_index,         \* minimise_run's local "left"
    stop_compressing,   \* volatile flag set by interrupt
    min_pc,             \* position inside minimise_run
    min_result,         \* "none" while running, then "true" / "false" / "swerr"
    min_pass,           \* 1, or 2 when minimise_run runs on its own result
    \* ---- sorter / searcher (bit_field_sorter_and_searcher.c) ----
    comms_sdram,            \* one slot per processor
    n_bit_fields,           \* sorted_bit_fields->n_bit_fields
    best_success,
    lowest_failure,
    tested_mid_points,      \* the set of bits that are set
    last_malloc_failed,
    last_compressed_table,  \* <<>> (NULL) or <<mid_point, size>>
    found_best,
    exit_code,              \* "running" or the code given to terminate
    router_entries,         \* entries of this run written into the router
    router_loads,           \* calls of load_routing_table_into_router
    router_status,          \* "none", "loaded", "alloc_failed", "set_failed"
    sorter_pc,              \* "idle", "start" or "check" (check_compressors)
    \* ---- environment of the sorter ----
    feasible,               \* the mid points whose table compresses
    faults,                 \* the kinds of fault that may occur in this run
    malloc_failures_left,   \* FAILED_MALLOC results the compressors may still give
    handled,                \* the responses that the last step handled
    time_steps,             \* timer ticks counted by timer_callback
    \* ---- bit-fields and filter regions (set_n_merged_filters) ----
    sorted_bit_fields,      \* sequence of [processor_id, key, sort_order]
    filter_regions,         \* per core: [keys, n_merged_filters]
    filter_pc               \* "idle", "ready" or "done"

min_vars == <<table, input_table, routes, routes_frequency, write_index,
              remaining_index, left_index, stop_compressing, min_pc,
              min_result, min_pass>>

sorter_vars == <<comms_sdram, n_bit_fields, best_success, lowest_failure,
                 tested_mid_points, last_malloc_failed, last_compressed_table,
                 found_best, exit_code, router_entries, router_loads,
                 router_status, sorter_pc, feasible, faults,
                 malloc_failures_left, handled>>

filter_vars == <<sorted_bit_fields, filter_regions, filter_pc>>

timer_vars == <<time_steps>>

vars == <<min_vars, sorter_vars, filter_vars, timer_vars>>

-----------------------------------------------------------------------------
\* Bounds of the model

\* width of keys and masks in bits (uint32_t in the source)
KeyBits == 2

\* longest input table
MaxEntries == 4

\* number of distinct route values in input tables
NumRouteValues == 3

\* MAX_NUM_ROUTES (1023 in the source), scaled to the table sizes explored
MAX_NUM_ROUTES == 3

\* MAX_PROCESSORS: the number of slots of comms_sdram (18 on the chip)
MAX_PROCESSORS == 4

\* most compressor processors listed in the compressor-processors header
MaxWorkers == 2

\* most bit-fields on the chip (n_bit_fields)
MaxBitFields == 3

\* most entries of a table a compressor hands back
MaxTableSize == 2

\* FAILED_MALLOC results the compressors may give in one run
MaxMallocFailures == 3

-----------------------------------------------------------------------------
\* Key/mask algebra on KeyBits-wide words

RECURSIVE Pow2(_)
Pow2(n) == IF n = 0 THEN 1 ELSE 2 * Pow2(n - 1)

WordMax == Pow2(KeyBits) - 1

Words == 0..WordMax

Bit(x, i) == (x \div Pow2(i)) % 2

RECURSIVE BitAndFrom(_, _, _)
BitAndFrom(a, b, i) ==
    IF i = KeyBits THEN 0
    ELSE Bit(a, i) * Bit(b, i) * Pow2(i) + BitAndFrom(a, b, i + 1)

\* the operators tabulated once over the words of the model
AndTable == [a \in Words, b \in Words |-> BitAndFrom(a, b, 0)]

BitAnd(a, b) == AndTable[a, b]

RECURSIVE BitOrFrom(_, _, _)
BitOrFrom(a, b, i) ==
    IF i = KeyBits THEN 0
    ELSE (IF Bit(a, i) + Bit(b, i) > 0 THEN Pow2(i) ELSE 0)
         + BitOrFrom(a, b, i + 1)

OrTable == [a \in Words, b \in Words |-> BitOrFrom(a, b, 0)]

BitOr(a, b) == OrTable[a, b]

RECURSIVE BitXorFrom(_, _, _)
BitXorFrom(a, b, i) ==
    IF i = KeyBits THEN 0
    ELSE ((Bit(a, i) + Bit(b, i)) % 2) * Pow2(i) + BitXorFrom(a, b, i + 1)

XorTable == [a \in Words, b \in Words |-> BitXorFrom(a, b, 0)]

BitXor(a, b) == XorTable[a, b]

BitNot(a) == WordMax - a

\* keymask_get_xs
keymask_get_xs(km) == BitAnd(BitNot(km.key), BitNot(km.mask))

\* keymask_intersect: do the two keymasks match a common key
keymask_intersect(a, b) == BitAnd(a.key, b.mask) = BitAnd(b.key, a.mask)

keymask_merge_exact(a, b) ==
    LET mask == BitOr(BitAnd(a.mask, b.mask), BitXor(a.key, b.key))
    IN  [key |-> BitAnd(BitOr(a.key, b.key), mask), mask |-> mask]

\* keymask_merge
keymask_merge(a, b) ==
    LET new_xs == BitNot(BitXor(a.key, b.key))
        mask   == BitAnd(BitAnd(a.mask, b.mask), new_xs)
    IN  [key |-> BitAnd(BitOr(a.key, b.key), mask), mask |-> mask]

\* a key k is matched by keymask km
Matches(km, k) == BitAnd(k, km.mask) = BitAnd(km.key, km.mask)

KeyMasks == [key : Words, mask : Words]

\* canonical keymasks: no key bit set outside the mask
CanonicalKeyMasks == {km \in KeyMasks : BitAnd(km.key, BitNot(km.mask)) = 0}

RouteValues == 1..NumRouteValues

-----------------------------------------------------------------------------
\* Routing table store (0-based indices over a sequence)

Get(t, i) == t[i + 1]

Put(t, i, e) == [t EXCEPT ![i + 1] = e]

\* routing_table_copy_entry(new_index, old_index)
CopyEntry(t, new_index, old_index) == Put(t, new_index, Get(t, old_index))

\* routing_table_remove_from_size(k): drop the last k entries
RemoveFromSize(t, k) == SubSeq(t, 1, Len(t) - k)

rtr_alloc_max == MAX_NUM_ROUTES

-----------------------------------------------------------------------------
\* pair_minimize.h

\* merge
merge(entry1, entry2) ==
    [key_mask |-> keymask_merge(entry1.key_mask, entry2.key_mask),
     route    |-> entry1.route,
     source   |-> IF entry1.source = entry2.source THEN entry1.source ELSE 0]

find_merge_unchecked(t, left, index, remaining) ==
    [ok |-> TRUE, t |-> Put(t, left, merge(Get(t, left), Get(t, index)))]

\* find_merge: [ok, t]; the merged entry replaces left when no entry of
\* [remaining, n_entries) intersects it
find_merge(t, left, index, remaining) ==
    LET merged == merge(Get(t, left), Get(t, index))
    IN  IF \E check \in remaining..(Len(t) - 1) :
               keymask_intersect(Get(t, check).key_mask, merged.key_mask)
        THEN [ok |-> FALSE, t |-> t]
        ELSE [ok |-> TRUE, t |-> Put(t, left, merged)]

\* the first index in left+1..right that merges with left, or -1
RECURSIVE FirstMerge(_, _, _, _, _)
FirstMerge(t, left, index, right, remaining) ==
    IF index > right THEN -1
    ELSE IF find_merge(t, left, index, remaining).ok THEN index
    ELSE FirstMerge(t, left, index + 1, right, remaining)

\* compress_by_route: [t, w] the table and write_index afterwards
RECURSIVE compress_by_route(_, _, _, _, _)
compress_by_route(t, left, right, w, remaining) ==
    IF left < right
    THEN LET index == FirstMerge(t, left, left + 1, right, remaining)
         IN  IF index >= 0
             THEN compress_by_route(
                      CopyEntry(find_merge(t, left, index, remaining).t,
                                index, right),
                      left, right - 1, w, remaining)
             ELSE compress_by_route(CopyEntry(t, w, left),
                                    left + 1, right, w + 1, remaining)
    ELSE IF left = right
    THEN [t |-> CopyEntry(t, w, left), w |-> w + 1]
    ELSE [t |-> t, w |-> w]

\* update_frequency over one route value: [ok, r, f]
update_frequency(r, f, route) ==
    IF \E i \in 1..Len(r) : r[i] = route
    THEN LET i == CHOOSE j \in 1..Len(r) :
                      r[j] = route /\ \A k \in 1..(j - 1) : r[k] # route
         IN  [ok |-> TRUE, r |-> r, f |-> [f EXCEPT ![i] = f[i] + 1]]
    ELSE [ok |-> Len(r) + 1 < MAX_NUM_ROUTES,
          r |-> Append(r, route), f |-> Append(f, 1)]

\* the histogram loop of minimise_run (lines 276-282)
RECURSIVE Histogram(_, _, _, _)
Histogram(t, index, r, f) ==
    IF index >= Len(t) THEN [ok |-> TRUE, r |-> r, f |-> f]
    ELSE LET u == update_frequency(r, f, Get(t, index).route)
         IN  IF u.ok THEN Histogram(t, index + 1, u.r, u.f)
             ELSE [ok |-> FALSE, r |-> u.r, f |-> u.f]

\* sort_routes: insertion sort of (routes, routes_frequency) by frequency
RECURSIVE ShuffleUp(_, _, _, _, _)
ShuffleUp(r, f, j, r_tmp, rf_tmp) ==
    IF j > 1 /\ f[j - 1] > rf_tmp
    THEN ShuffleUp([r EXCEPT ![j] = r[j - 1]], [f EXCEPT ![j] = f[j - 1]],
                   j - 1, r_tmp, rf_tmp)
    ELSE [r |-> [r EXCEPT ![j] = r_tmp], f |-> [f EXCEPT ![j] = rf_tmp]]

RECURSIVE SortRoutesFrom(_, _, _)
SortRoutesFrom(r, f, i) ==
    IF i > Len(r) THEN [r |-> r, f |-> f]
    ELSE LET s == ShuffleUp(r, f, i, r[i], f[i])
         IN  SortRoutesFrom(s.r, s.f, i + 1)

sort_routes(r, f) == SortRoutesFrom(r, f, 2)

\* find_route_index (0-based); -1 stands for the rt_error branch
find_route_index(r, route) ==
    IF \E i \in 1..Len(r) : r[i] = route
    THEN (CHOOSE j \in 1..Len(r) :
              r[j] = route /\ \A k \in 1..(j - 1) : r[k] # route) - 1
    ELSE -1

\* routes_frequency[i] (0-based); the static array is zero past routes_count
FreqAt(f, i) == IF i + 1 <= Len(f) THEN f[i + 1] ELSE 0

\* route_offset[] of sort_table (lines 194-199), 0-based group starts
RECURSIVE RouteOffsets(_, _, _)
RouteOffsets(f, i, offset) ==
    IF i > Len(f) THEN <<>>
    ELSE <<offset>> \o RouteOffsets(f, i + 1, offset + f[i])

\* the inner swap loop of sort_table (lines 227-251): [t, ro, err]
RECURSIVE SwapLoop(_, _, _, _, _, _, _)
SwapLoop(t, r, ro, entry, route_index, current_index, pos) ==
    IF route_index = current_index THEN [t |-> t, ro |-> ro, err |-> FALSE]
    ELSE IF route_index < 0 THEN [t |-> t, ro |-> ro, err |-> TRUE]
    ELSE LET new_pos == ro[route_index + 1]
             ro2     == [ro EXCEPT ![route_index + 1] = new_pos + 1]
         IN  IF new_pos >= Len(t) THEN [t |-> t, ro |-> ro2, err |-> TRUE]
             ELSE LET old_entry == Get(t, new_pos)
                      t2        == Put(t, new_pos, entry)
                  IN  IF new_pos <= pos
                      THEN [t |-> t2, ro |-> ro2, err |-> FALSE]
                      ELSE SwapLoop(t2, r, ro2, old_entry,
                                    find_route_index(r, old_entry.route),
                                    route_index, pos)

\* the outer loop of sort_table (lines 210-252): [t, err]
RECURSIVE SortLoop(_, _, _, _, _, _, _)
SortLoop(t, r, f, ro, pos, pos_index, next_index_offset) ==
    IF pos >= Len(t) THEN [t |-> t, err |-> FALSE]
    ELSE LET entry         == Get(t, pos)
             pos1          == pos + 1
             route_index   == find_route_index(r, entry.route)
             current_index == pos_index
             advance       == pos1 = next_index_offset
             pos_index1    == IF advance THEN pos_index + 1 ELSE pos_index
             next1         == IF advance
                              THEN next_index_offset + FreqAt(f, pos_index1)
                              ELSE next_index_offset
             s == SwapLoop(t, r, ro, entry, route_index, current_index, pos1)
         IN  IF s.err THEN [t |-> s.t, err |-> TRUE]
             ELSE SortLoop(s.t, r, f, s.ro, pos1, pos_index1, next1)

\* sort_table
sort_table_unguarded(t, r, f) ==
    IF Len(r) = 0 THEN [t |-> t, err |-> TRUE]
    ELSE SortLoop(t, r, f, RouteOffsets(f, 1, 0), 0, 0, f[1])

sort_table(t, r, f) ==
    IF Len(r) = 0 THEN [t |-> t, err |-> FALSE]
    ELSE SortLoop(t, r, f, RouteOffsets(f, 1, 0), 0, 0, f[1])

\* the last index of the run of entries sharing left's route (lines 312-319)
RECURSIVE GroupRight(_, _)
GroupRight(t, right) ==
    IF right < Len(t) - 1 /\ Get(t, right + 1).route = Get(t, right).route
    THEN GroupRight(t, right + 1)
    ELSE right

-----------------------------------------------------------------------------
\* minimise_run as a process: one action per phase, the stop flag read at the
\* phase boundaries where the source reads it.

Entries == [key_mask : CanonicalKeyMasks, route : RouteValues, source : {1}]

\* entries of different routes never match a common key ("The routes must
\* be non-overlapping pre-minimisation routes", sort_routes)
NonOverlapping(t) ==
    \A i, j \in 1..Len(t) :
        t[i].route # t[j].route
            => ~keymask_intersect(t[i].key_mask, t[j].key_mask)

MinIdle ==
    /\ input_table = <<>>
    /\ table = <<>>
    /\ routes = <<>>
    /\ routes_frequency = <<>>
    /\ write_index = 0
    /\ remaining_index = 0
    /\ left_index = 0
    /\ stop_compressing = FALSE
    /\ min_pc = "load"
    /\ min_result = "none"
    /\ min_pass = 1

\* the table is written entry by entry before minimise_run is called
MinLoad ==
    /\ min_pc = "load"
    /\ min_pass = 1
    /\ Len(table) < MaxEntries
    /\ \E e \in Entries :
           /\ NonOverlapping(Append(table, e))
           /\ table' = Append(table, e)
           /\ input_table' = Append(table, e)
    /\ UNCHANGED <<routes, routes_frequency, write_index, remaining_index,
                   left_index, stop_compressing, min_pc, min_result>>
    /\ UNCHANGED <<min_pass, sorter_vars, filter_vars, timer_vars>>

\* return false / rt_error from inside minimise_run
MinReturn(res) ==
    /\ min_pc' = "done"
    /\ min_result' = res

\* lines 338-347: tail removal and return true
MinTailRemoval(t, w) ==
    /\ table' = RemoveFromSize(t, Len(t) - w)
    /\ MinReturn("true")

\* a minimiser that never looks at the flag
StopIgnored(flag) == FALSE

\* lines 293, 302, 332: the test of *stop_compressing that ends a phase
StopRequested(flag) == flag

\* lines 336-347: the flag is not read again after the test that ends the
\* last route group, so the interrupt may raise it before the tail removal
LateStop == \E late \in BOOLEAN : stop_compressing' = (stop_compressing \/ late)

\* lines 263-293: histogram, sort_routes, first stop check; the interrupt may
\* have raised the flag while this phase ran
MinHistogram ==
    /\ min_pc = "load"
    /\ LET h == Histogram(table, 0, <<>>, <<>>)
           s == sort_routes(h.r, h.f)
       IN  IF MAX_NUM_ROUTES # rtr_alloc_max \/ ~h.ok
           THEN /\ routes' = h.r
                /\ routes_frequency' = h.f
                /\ MinReturn("false")
                /\ UNCHANGED stop_compressing
           ELSE /\ routes' = s.r
                /\ routes_frequency' = s.f
                /\ \E interrupted \in BOOLEAN :
                       /\ stop_compressing' = interrupted
                       /\ IF StopRequested(interrupted)
                          THEN MinReturn("false")
                          ELSE min_pc' = "sort_table" /\ UNCHANGED min_result
    /\ UNCHANGED <<table, input_table, write_index, remaining_index,
                   left_index>>
    /\ UNCHANGED <<min_pass, sorter_vars, filter_vars, timer_vars>>

\* lines 300-309: sort_table, second stop check, set-up of the group loop
MinSortTable ==
    /\ min_pc = "sort_table"
    /\ LET s == sort_table(table, routes, routes_frequency)
       IN  IF s.err
           THEN table' = s.t /\ MinReturn("swerr")
                /\ UNCHANGED <<write_index, left_index>>
           ELSE IF StopRequested(stop_compressing)
           THEN table' = s.t /\ MinReturn("false")
                /\ UNCHANGED <<write_index, left_index>>
           ELSE /\ write_index' = 0
                /\ left_index' = 0
                /\ IF Len(s.t) = 0
                   THEN MinTailRemoval(s.t, 0)
                   ELSE table' = s.t /\ min_pc' = "compress"
                        /\ UNCHANGED min_result
    /\ IF min_result' = "true" THEN LateStop ELSE UNCHANGED stop_compressing
    /\ UNCHANGED <<input_table, routes, routes_frequency, remaining_index>>
    /\ UNCHANGED <<min_pass, sorter_vars, filter_vars, timer_vars>>

OverCapacityWrong(w) == FALSE

\* line 323
OverCapacity(w) == w > rtr_alloc_max

\* lines 311-336: one iteration of the group loop
MinCompressGroup ==
    /\ min_pc = "compress"
    /\ LET right == GroupRight(table, left_index)
           c     == compress_by_route(table, left_index, right, write_index,
                                      right + 1)
       IN  /\ remaining_index' = right + 1
           /\ write_index' = c.w
           /\ IF OverCapacity(c.w) \/ StopRequested(stop_compressing)
              THEN table' = c.t /\ MinReturn("false")
                   /\ UNCHANGED left_index
              ELSE /\ left_index' = right + 1
                   /\ IF right + 1 <= Len(table) - 1
                      THEN table' = c.t
                           /\ UNCHANGED <<min_pc, min_result>>
                      ELSE MinTailRemoval(c.t, c.w)
    /\ IF min_result' = "true" THEN LateStop ELSE UNCHANGED stop_compressing
    /\ UNCHANGED <<input_table, routes, routes_frequency>>
    /\ UNCHANGED <<min_pass, sorter_vars, filter_vars, timer_vars>>

\* the interrupt that raises *stop_compressing during the run
MinStop ==
    /\ min_pc \in {"sort_table", "compress"}
    /\ ~stop_compressing
    /\ stop_compressing' = TRUE
    /\ UNCHANGED <<table, input_table, routes, routes_frequency, write_index,
                   remaining_index, left_index, min_pc, min_result>>
    /\ UNCHANGED <<min_pass, sorter_vars, filter_vars, timer_vars>>

\* minimise_run is called again on the table a successful run has left
MinAgain ==
    /\ min_pc = "done"
    /\ min_result = "true"
    /\ min_pass = 1
    /\ min_pass' = 2
    /\ input_table' = table
    /\ min_pc' = "load"
    /\ min_result' = "none"
    /\ stop_compressing' = FALSE
    /\ UNCHANGED <<table, routes, routes_frequency, write_index,
                   remaining_index, left_index>>
    /\ UNCHANGED <<sorter_vars, filter_vars, timer_vars>>

-----------------------------------------------------------------------------
\* Values shared by the sorter and the compressors (compressor_sorter_structs.h
\* and constants.h).  The sorter compares them by order: an instruction
\* >= PREPARE is a processor not yet done, a state > COMPRESSING is a result.

\* instructions_to_compressor
NOT_COMPRESSOR == 0

DO_NOT_USE == 1

TO_BE_PREPARED == 2

PREPARE == 3

RUN == 4

FORCE_TO_STOP == 5

\* compressor_states
UNUSED == 0

PREPARED == 1

COMPRESSING == 2

SUCCESSFUL_COMPRESSION == 3

FAILED_MALLOC == 4

FAILED_TO_COMPRESS == 5

RAN_OUT_OF_TIME == 6

FORCED_BY_COMPRESSOR_CONTROL == 7

FAILED_TO_FIND == -1

LAST_RESULT_NOT_MALLOC_FAIL == -1

NO_BIT_FIELDS == 0

\* what locate_next_mid_point gives when it reaches its terminate(EXIT_SWERR)
MID_POINT_SWERR == -2

Procs == 0..(MAX_PROCESSORS - 1)

\* the kinds of fault a run may meet
AllFaults == {"worker_malloc", "worker_timeout", "sorter_malloc",
              "no_reply", "router"}

\* a slot as initialise_user_register_tracker leaves it (lines 966-975)
EmptySlot ==
    [compressor_state |-> UNUSED, sorter_instruction |-> NOT_COMPRESSOR,
     mid_point |-> FAILED_TO_FIND, routing_tables |-> <<>>]

\* the size of the table that minimise_run leaves for a mid point
CompressedSize(mid_point) == 1 + (mid_point % MaxTableSize)

\* last_compressed_table->size
TableSize(tbl) == IF Len(tbl) = 2 THEN tbl[2] ELSE 0

-----------------------------------------------------------------------------
\* bit_field_sorter_and_searcher.c: the functions as operators on the sorter's
\* data s = [comms, tested, best, lowest, lmf, lct, found, exit, router,
\* loads, status].  A function that ends in terminate leaves s.exit # "running" and
\* nothing after it is executed.

Running(s) == s.exit = "running"

\* malloc_extras_terminate: the process ends with the given exit code
terminate(s, code) == [s EXCEPT !.exit = code]

\* send_force_stop_message
send_force_stop_message(c, p) ==
    IF c[p].sorter_instruction = RUN
    THEN [c EXCEPT ![p].sorter_instruction = FORCE_TO_STOP]
    ELSE c

\* send_prepare_message
send_prepare_message(c, p) ==
    [c EXCEPT ![p].sorter_instruction = PREPARE,
              ![p].mid_point = -1]

\* pass_instructions_to_compressor; ok: routing_table_utils_malloc succeeded
pass_instructions_to_compressor(c, p, mid_point, ok) ==
    IF ~ok THEN c
    ELSE [c EXCEPT ![p].routing_tables = <<mid_point>>,
                   ![p].mid_point = mid_point,
                   ![p].sorter_instruction = RUN]

\* lines 253-262: the failure branch of malloc_tables_and_set_off_bit_compressor
TurnOffReady(c) ==
    [q \in Procs |->
        IF c[q].sorter_instruction \in {PREPARE, TO_BE_PREPARED}
        THEN [c[q] EXCEPT !.sorter_instruction = DO_NOT_USE]
        ELSE c[q]]

\* malloc_tables_and_set_off_bit_compressor for a processor id >= 0
malloc_tables_and_set_off_bit_compressor(s, mid_point, p, ok) ==
    LET freed == [s.comms EXCEPT ![p].routing_tables = <<>>]
    IN  IF ok
        THEN [s EXCEPT
                 !.comms = pass_instructions_to_compressor(freed, p,
                                                           mid_point, TRUE)]
        ELSE [s EXCEPT
                 !.comms = TurnOffReady(
                     [freed EXCEPT ![p].sorter_instruction = DO_NOT_USE]),
                 !.tested = @ \ {mid_point}]

RECURSIVE LongestGapLater(_, _, _, _, _, _)
LongestGapLater(tested, index, last, best_end, best_length, current_length) ==
    IF index > last THEN <<best_end, best_length>>
    ELSE IF index \in tested
    THEN IF current_length >= best_length /\ current_length > 0
         THEN LongestGapLater(tested, index + 1, last, index - 1,
                              current_length, 0)
         ELSE LongestGapLater(tested, index + 1, last, best_end, best_length,
                              0)
    ELSE LongestGapLater(tested, index + 1, last, best_end, best_length,
                         current_length + 1)

\* the scan of locate_next_mid_point (lines 387-416): <<best_end, best_length>>
RECURSIVE LongestGap(_, _, _, _, _, _)
LongestGap(tested, index, last, best_end, best_length, current_length) ==
    IF index > last THEN <<best_end, best_length>>
    ELSE IF index \in tested
    THEN IF current_length > best_length
         THEN LongestGap(tested, index + 1, last, index - 1, current_length, 0)
         ELSE LongestGap(tested, index + 1, last, best_end, best_length, 0)
    ELSE LongestGap(tested, index + 1, last, best_end, best_length,
                    current_length + 1)

locate_next_mid_point_end(tested, best, lowest, n) ==
    IF 0 \notin tested THEN 0
    ELSE IF n = 0 THEN FAILED_TO_FIND
    ELSE IF n \notin tested THEN n
    ELSE LongestGap(tested, best + 1, lowest, FAILED_TO_FIND, 0, 0)[1]

\* a search that returns the index in front of the longest run
locate_next_mid_point_before(tested, best, lowest, n) ==
    IF 0 \notin tested THEN 0
    ELSE IF n = 0 THEN FAILED_TO_FIND
    ELSE IF n \notin tested THEN n
    ELSE LET g == LongestGap(tested, best + 1, lowest, FAILED_TO_FIND, 0, 0)
         IN  IF g[1] = FAILED_TO_FIND THEN FAILED_TO_FIND ELSE g[1] - g[2]

\* locate_next_mid_point
locate_next_mid_point(tested, best, lowest, n) ==
    IF 0 \notin tested THEN 0
    ELSE IF n = 0 THEN FAILED_TO_FIND
    ELSE IF n \notin tested THEN n
    ELSE LET g == LongestGap(tested, best + 1, lowest, FAILED_TO_FIND, 0, 0)
             new_mid_point == g[1] - (g[2] \div 2)
         IN  IF new_mid_point >= 0 /\ new_mid_point \in tested
             THEN MID_POINT_SWERR
             ELSE new_mid_point

\* prepare_processor_first_time; first: "reply" (the compressor answers in
\* time), "no_reply" (20 polls pass) or "no_memory" (MALLOC_SDRAM fails)
prepare_processor_first_time(c, p, first) ==
    IF first = "no_memory"
    THEN [ok |-> FALSE, c |-> [c EXCEPT ![p].sorter_instruction = DO_NOT_USE]]
    ELSE IF first = "no_reply" /\ c[p].compressor_state # PREPARED
    THEN [ok |-> FALSE, c |-> [c EXCEPT ![p].sorter_instruction = DO_NOT_USE]]
    ELSE [ok |-> TRUE,
          c |-> [c EXCEPT ![p].sorter_instruction = PREPARE,
                          ![p].compressor_state = PREPARED]]

RECURSIVE PrepareFromOnce(_, _, _)
PrepareFromOnce(c, p, first) ==
    IF p >= MAX_PROCESSORS THEN [p |-> FAILED_TO_FIND, c |-> c]
    ELSE IF c[p].sorter_instruction = TO_BE_PREPARED
    THEN LET r == prepare_processor_first_time(c, p, first[p])
         IN  IF r.ok THEN [p |-> p, c |-> r.c]
             ELSE [p |-> FAILED_TO_FIND, c |-> r.c]
    ELSE PrepareFromOnce(c, p + 1, first)

\* the second loop of find_prepared_processor (lines 527-541)
RECURSIVE PrepareFrom(_, _, _)
PrepareFrom(c, p, first) ==
    IF p >= MAX_PROCESSORS THEN [p |-> FAILED_TO_FIND, c |-> c]
    ELSE IF c[p].sorter_instruction = TO_BE_PREPARED
    THEN LET r == prepare_processor_first_time(c, p, first[p])
         IN  IF r.ok THEN [p |-> p, c |-> r.c]
             ELSE PrepareFrom(r.c, p + 1, first)
    ELSE PrepareFrom(c, p + 1, first)

IsReady(slot) ==
    slot.sorter_instruction = PREPARE /\ slot.compressor_state = PREPARED

find_prepared_processor_busy(c, first) ==
    IF \E p \in Procs : c[p].sorter_instruction >= PREPARE
    THEN [p |-> CHOOSE p \in Procs :
                    /\ c[p].sorter_instruction >= PREPARE
                    /\ \A q \in 0..(p - 1) : ~(c[q].sorter_instruction >= PREPARE),
          c |-> c]
    ELSE PrepareFrom(c, 0, first)

\* find_prepared_processor: [p, c]
find_prepared_processor(c, first) ==
    IF \E p \in Procs : IsReady(c[p])
    THEN [p |-> CHOOSE p \in Procs :
                    IsReady(c[p]) /\ \A q \in 0..(p - 1) : ~IsReady(c[q]),
          c |-> c]
    ELSE PrepareFrom(c, 0, first)

find_compressor_processor_no_tracker(s, midpoint, first) ==
    LET f == find_prepared_processor(s.comms, first)
    IN  IF f.p > FAILED_TO_FIND
        THEN [p |-> f.p,
              s |-> [s EXCEPT
                        !.comms = [f.c EXCEPT ![f.p].mid_point = midpoint]]]
        ELSE [p |-> f.p, s |-> [s EXCEPT !.comms = f.c]]


\* find_compressor_processor_and_set_tracker: [p, s]
find_compressor_processor_and_set_tracker(s, midpoint, first) ==
    LET f == find_prepared_processor(s.comms, first)
    IN  IF f.p > FAILED_TO_FIND
        THEN [p |-> f.p,
              s |-> [s EXCEPT
                        !.comms = [f.c EXCEPT ![f.p].mid_point = midpoint],
                        !.tested = @ \cup {midpoint}]]
        ELSE [p |-> f.p, s |-> [s EXCEPT !.comms = f.c]]

\* setup_no_bitfields_attempt; alloc[m]: the table for mid point m can be
\* allocated
setup_no_bitfields_attempt(s, first, alloc) ==
    LET f == find_compressor_processor_and_set_tracker(s, NO_BIT_FIELDS, first)
    IN  IF f.p = FAILED_TO_FIND THEN terminate(f.s, "RTE_SWERR")
        ELSE [f.s EXCEPT
                 !.comms = pass_instructions_to_compressor(
                               @, f.p, NO_BIT_FIELDS, alloc[NO_BIT_FIELDS])]

RECURSIVE BinarySearchLoopFixedStep(_, _, _, _, _)
BinarySearchLoopFixedStep(s, available, mid_point, first, alloc) ==
    IF ~(available > 0 /\ mid_point > 0) THEN s
    ELSE LET f == find_compressor_processor_and_set_tracker(s, mid_point,
                                                            first)
         IN  IF f.p = FAILED_TO_FIND THEN f.s
             ELSE BinarySearchLoopFixedStep(
                      malloc_tables_and_set_off_bit_compressor(
                          f.s, mid_point, f.p, alloc[mid_point]),
                      available - 1, mid_point - 1, first, alloc)

\* the loop of start_binary_search (lines 873-889)
RECURSIVE BinarySearchLoop(_, _, _, _, _)
BinarySearchLoop(s, available, mid_point, first, alloc) ==
    IF ~(available > 0 /\ mid_point > 0) THEN s
    ELSE LET f == find_compressor_processor_and_set_tracker(s, mid_point,
                                                            first)
         IN  IF f.p = FAILED_TO_FIND THEN f.s
             ELSE LET step == mid_point \div available
                  IN  BinarySearchLoop(
                          malloc_tables_and_set_off_bit_compressor(
                              f.s, mid_point, f.p, alloc[mid_point]),
                          available - 1,
                          mid_point - (IF step < 1 THEN 1 ELSE step),
                          first, alloc)

\* start_binary_search
start_binary_search(s, n, first, alloc) ==
    BinarySearchLoop(
        s,
        Cardinality({p \in Procs :
                        s.comms[p].sorter_instruction = TO_BE_PREPARED}),
        n, first, alloc)

\* all_compressor_processors_busy
all_compressor_processors_busy(c) ==
    \A p \in Procs :
        /\ ~IsReady(c[p])
        /\ c[p].sorter_instruction # TO_BE_PREPARED

all_compressor_processors_done_wrong(c) ==
    \A p \in Procs : ~(c[p].sorter_instruction > PREPARE)

\* all_compressor_processors_done
all_compressor_processors_done(c) ==
    \A p \in Procs : ~(c[p].sorter_instruction >= PREPARE)

\* load_routing_table_into_router; rtr: -1 when rtr_alloc_id fails, the
\* entry_id at which rtr_mc_set fails, or the size when nothing fails
load_routing_table_into_router(s, rtr) ==
    LET size == TableSize(s.lct)
    IN  IF rtr = -1
        THEN [ok |-> FALSE,
              s |-> [s EXCEPT !.loads = @ + 1, !.status = "alloc_failed"]]
        ELSE IF rtr \in 0..(size - 1)
        THEN [ok |-> FALSE,
              s |-> [s EXCEPT !.loads = @ + 1, !.router = rtr,
                              !.status = "set_failed"]]
        ELSE [ok |-> TRUE,
              s |-> [s EXCEPT !.loads = @ + 1, !.router = size,
                              !.status = "loaded"]]

\* a cleanup that loads the router without looking at best_success
handle_best_cleanup_unguarded(s, rtr) ==
    terminate(
        [load_routing_table_into_router(s, rtr).s EXCEPT !.found = TRUE],
        "EXITED_CLEANLY")

\* handle_best_cleanup
handle_best_cleanup(s, rtr) ==
    IF s.best = FAILED_TO_FIND THEN terminate(s, "RTE_SWERR")
    ELSE terminate(
             [load_routing_table_into_router(s, rtr).s EXCEPT !.found = TRUE],
             "EXITED_CLEANLY")

\* lines 624-638 of carry_on_binary_search: no mid point is left
RetireReady(c) ==
    [q \in Procs |->
        IF c[q].sorter_instruction = PREPARE
        THEN [c[q] EXCEPT !.sorter_instruction = DO_NOT_USE]
        ELSE c[q]]

\* carry_on_binary_search; wild: what the access to comms_sdram[-1] does when
\* no processor was found ("none": it is not seen, "abort": the core faults)
carry_on_binary_search(s, n, first, ok, rtr, wild) ==
    IF all_compressor_processors_done(s.comms)
    THEN handle_best_cleanup(s, rtr)
    ELSE IF all_compressor_processors_busy(s.comms) THEN s
    ELSE LET mid_point == locate_next_mid_point(s.tested, s.best, s.lowest, n)
         IN  IF mid_point = MID_POINT_SWERR THEN terminate(s, "RTE_SWERR")
             ELSE IF mid_point = FAILED_TO_FIND
             THEN [s EXCEPT !.comms = RetireReady(@)]
             ELSE LET f == find_compressor_processor_and_set_tracker(
                               s, mid_point, first)
                  IN  IF f.p # FAILED_TO_FIND
                      THEN malloc_tables_and_set_off_bit_compressor(
                               f.s, mid_point, f.p, ok)
                      ELSE IF wild = "abort" THEN terminate(f.s, "RTE_ABORT")
                      ELSE IF ok THEN f.s
                      ELSE [f.s EXCEPT !.comms = TurnOffReady(@),
                                       !.tested = @ \ {mid_point}]

ForceStopAll(c, mid_point) ==
    [q \in Procs |-> send_force_stop_message(c, q)[q]]

ForceStopNone(c, mid_point) == c

\* the force-stop loop of process_success: every search below mid_point
ForceStopBelow(c, mid_point) ==
    [q \in Procs |->
        IF c[q].mid_point < mid_point THEN send_force_stop_message(c, q)[q]
        ELSE c[q]]

\* the force-stop loop of process_failed: every search above mid_point
ForceStopAbove(c, mid_point) ==
    [q \in Procs |->
        IF c[q].mid_point > mid_point THEN send_force_stop_message(c, q)[q]
        ELSE c[q]]

process_success_last_table(s, mid_point, p) ==
    LET c1 == [s.comms EXCEPT ![p].mid_point = -1]
        s2 == [s EXCEPT !.best = IF @ <= mid_point THEN mid_point ELSE @,
                        !.lct = c1[p].routing_tables,
                        !.comms = [c1 EXCEPT ![p].routing_tables = <<>>]]
    IN  [s2 EXCEPT !.comms = ForceStopBelow(@, mid_point),
                   !.lmf = LAST_RESULT_NOT_MALLOC_FAIL]

process_success_unguarded(s, mid_point, p) ==
    LET c1 == [s.comms EXCEPT ![p].mid_point = -1]
        s2 == [s EXCEPT !.best = mid_point,
                        !.lct = c1[p].routing_tables,
                        !.comms = [c1 EXCEPT ![p].routing_tables = <<>>]]
    IN  [s2 EXCEPT !.comms = ForceStopBelow(@, mid_point),
                   !.lmf = LAST_RESULT_NOT_MALLOC_FAIL]


\* process_success
process_success(s, mid_point, p) ==
    LET c1 == [s.comms EXCEPT ![p].mid_point = -1]
        s2 == IF s.best <= mid_point
              THEN [s EXCEPT !.best = mid_point,
                             !.lct = c1[p].routing_tables,
                             !.comms = [c1 EXCEPT ![p].routing_tables = <<>>]]
              ELSE [s EXCEPT !.comms = [c1 EXCEPT ![p].routing_tables = <<>>]]
    IN  [s2 EXCEPT !.comms = ForceStopBelow(@, mid_point),
                   !.lmf = LAST_RESULT_NOT_MALLOC_FAIL]

process_failed_malloc_retires(s, mid_point, p, wild) ==
    LET s1 == [s EXCEPT !.comms = [@ EXCEPT ![p].routing_tables = <<>>],
                        !.tested = @ \ {mid_point}]
    IN  IF mid_point < 0 /\ wild = "abort" THEN terminate(s1, "RTE_ABORT")
        ELSE [s1 EXCEPT !.comms = [@ EXCEPT
                                      ![p].sorter_instruction = DO_NOT_USE],
                        !.lmf = mid_point]

\* process_failed_malloc; wild: what bit_field_clear does for mid point -1
process_failed_malloc(s, mid_point, p, wild) ==
    LET s1 == [s EXCEPT !.comms = [@ EXCEPT ![p].routing_tables = <<>>],
                        !.tested = @ \ {mid_point}]
    IN  IF mid_point < 0 /\ wild = "abort" THEN terminate(s1, "RTE_ABORT")
        ELSE IF s1.lmf = LAST_RESULT_NOT_MALLOC_FAIL
        THEN [s1 EXCEPT !.comms = [@ EXCEPT
                                      ![p].sorter_instruction = DO_NOT_USE],
                        !.lmf = mid_point]
        ELSE IF s1.lmf = mid_point
        THEN [s1 EXCEPT !.comms = [@ EXCEPT
                                      ![p].sorter_instruction = DO_NOT_USE]]
        ELSE [s1 EXCEPT !.lmf = LAST_RESULT_NOT_MALLOC_FAIL]

process_failed_any_mid_point(s, mid_point, p) ==
    LET s1 == [s EXCEPT
                  !.lowest = IF @ > mid_point THEN mid_point ELSE @,
                  !.comms = [@ EXCEPT ![p].routing_tables = <<>>]]
    IN  [s1 EXCEPT
            !.comms = ForceStopAbove(@, mid_point),
            !.lmf = LAST_RESULT_NOT_MALLOC_FAIL]

\* process_failed
process_failed(s, mid_point, p) ==
    IF mid_point = 0 THEN terminate(s, "EXIT_FAIL")
    ELSE LET s1 == [s EXCEPT
                       !.lowest = IF @ > mid_point THEN mid_point ELSE @,
                       !.comms = [@ EXCEPT ![p].routing_tables = <<>>]]
         IN  [s1 EXCEPT
                 !.comms = ForceStopAbove(@, mid_point),
                 !.lmf = LAST_RESULT_NOT_MALLOC_FAIL]

process_compressor_response_late_dropped(s, p, finished_state, wild) ==
    LET mid_point == s.comms[p].mid_point
        s1 == [s EXCEPT !.comms = send_prepare_message(@, p)]
        stopped == s.comms[p].sorter_instruction = FORCE_TO_STOP
    IN  CASE finished_state = SUCCESSFUL_COMPRESSION /\ ~stopped ->
                 process_success(s1, mid_point, p)
          [] finished_state = FAILED_MALLOC ->
                 process_failed_malloc(s1, mid_point, p, wild)
          [] finished_state \in {FAILED_TO_COMPRESS, RAN_OUT_OF_TIME} ->
                 process_failed(s1, mid_point, p)
          [] finished_state = FORCED_BY_COMPRESSOR_CONTROL
                \/ (finished_state = SUCCESSFUL_COMPRESSION /\ stopped) ->
                 [s1 EXCEPT !.comms = [@ EXCEPT ![p].routing_tables = <<>>]]
          [] OTHER -> terminate(s1, "RTE_SWERR")

\* process_compressor_response
process_compressor_response(s, p, finished_state, wild) ==
    LET mid_point == s.comms[p].mid_point
        s1 == [s EXCEPT !.comms = send_prepare_message(@, p)]
    IN  CASE finished_state = SUCCESSFUL_COMPRESSION ->
                 process_success(s1, mid_point, p)
          [] finished_state = FAILED_MALLOC ->
                 process_failed_malloc(s1, mid_point, p, wild)
          [] finished_state \in {FAILED_TO_COMPRESS, RAN_OUT_OF_TIME} ->
                 process_failed(s1, mid_point, p)
          [] finished_state = FORCED_BY_COMPRESSOR_CONTROL ->
                 [s1 EXCEPT !.comms = [@ EXCEPT ![p].routing_tables = <<>>]]
          [] OTHER -> terminate(s1, "RTE_SWERR")

-----------------------------------------------------------------------------
\* The sorter as a process: start_compression_process, then the loop of
\* check_compressors, one pass per step.

SorterState ==
    [comms |-> comms_sdram, tested |-> tested_mid_points,
     best |-> best_success, lowest |-> lowest_failure,
     lmf |-> last_malloc_failed, lct |-> last_compressed_table,
     found |-> found_best, exit |-> exit_code, router |-> router_entries,
     loads |-> router_loads, status |-> router_status]

Store(s) ==
    /\ comms_sdram' = s.comms
    /\ tested_mid_points' = s.tested
    /\ best_success' = s.best
    /\ lowest_failure' = s.lowest
    /\ last_malloc_failed' = s.lmf
    /\ last_compressed_table' = s.lct
    /\ found_best' = s.found
    /\ exit_code' = s.exit
    /\ router_entries' = s.router
    /\ router_loads' = s.loads
    /\ router_status' = s.status

\* the outcomes of the sorter's own allocations
AllocOutcomes == IF "sorter_malloc" \in faults THEN BOOLEAN ELSE {TRUE}

\* the outcomes of preparing a processor for the first time
FirstOutcomes ==
    {"reply"} \cup (IF "no_reply" \in faults THEN {"no_reply"} ELSE {})
              \cup (IF "sorter_malloc" \in faults THEN {"no_memory"} ELSE {})

ToBePrepared(c) == {p \in Procs : c[p].sorter_instruction = TO_BE_PREPARED}

\* the outcomes of rtr_alloc_id and rtr_mc_set when the table is loaded
RouterOutcomes(s) ==
    IF all_compressor_processors_done(s.comms) /\ s.best # FAILED_TO_FIND
          /\ "router" \in faults
    THEN -1..TableSize(s.lct)
    ELSE {TableSize(s.lct)}

MallocFailed(c) == {p \in Procs : c[p].compressor_state = FAILED_MALLOC}

\* what an access outside tested_mid_points or comms_sdram may do, in a
\* pass that can come to one
WildOutcomes(c) ==
    IF \/ \E p \in MallocFailed(c) : c[p].mid_point < 0
       \/ /\ \A p \in Procs : c[p].compressor_state <= COMPRESSING
          /\ \A p \in Procs : ~IsReady(c[p])
    THEN {"none", "abort"}
    ELSE {"none"}

\* process_compressor_response writes PREPARE (line 773) and, for a failed
\* malloc, DO_NOT_USE after it (lines 713, 720): the compressor may read its
\* instruction in between (seen) and clear its result
Observed(s, p, seen) ==
    IF seen /\ Running(s) /\ s.comms[p].sorter_instruction = DO_NOT_USE
    THEN [s EXCEPT !.comms = [@ EXCEPT ![p].compressor_state = PREPARED]]
    ELSE s

\* start_compression_process
StartCompressionProcess ==
    /\ sorter_pc = "start"
    /\ exit_code = "running"
    /\ \E read_ok \in AllocOutcomes :
       \E first \in [ToBePrepared(comms_sdram) -> FirstOutcomes] :
       \E alloc \in [0..n_bit_fields -> AllocOutcomes] :
           LET s0 == SorterState
               s1 == setup_no_bitfields_attempt(s0, first, alloc)
               s2 == [s1 EXCEPT !.lowest = n_bit_fields]
           IN  IF ~read_ok THEN Store(terminate(s0, "EXIT_MALLOC"))
               ELSE IF ~Running(s1) THEN Store(s1)
               ELSE Store(start_binary_search(s2, n_bit_fields, first, alloc))
    /\ sorter_pc' = "check"
    /\ UNCHANGED <<n_bit_fields, feasible, faults, malloc_failures_left>>
    /\ handled' = <<>>
    /\ UNCHANGED <<min_vars, filter_vars, timer_vars>>

\* the for loop of check_compressors (lines 841-849) from processor_id on;
\* log: the responses it handled, each as <<processor_id, finished_state,
\* mid_point, sorter_instruction>>
RECURSIVE ScanFrom(_, _, _, _, _)
ScanFrom(s, log, processor_id, wild, seen) ==
    IF processor_id >= MAX_PROCESSORS \/ ~Running(s)
    THEN [s |-> s, log |-> log]
    ELSE LET finished_state == s.comms[processor_id].compressor_state
         IN  IF finished_state > COMPRESSING
             THEN ScanFrom(
                      Observed(
                          process_compressor_response(
                              s, processor_id, finished_state, wild),
                          processor_id,
                          finished_state = FAILED_MALLOC
                              /\ seen[processor_id]),
                      Append(log,
                             <<processor_id, finished_state,
                               s.comms[processor_id].mid_point,
                               s.comms[processor_id].sorter_instruction>>),
                      processor_id + 1, wild, seen)
             ELSE ScanFrom(s, log, processor_id + 1, wild, seen)

\* one pass of the while loop of check_compressors (lines 837-857)
CheckCompressors ==
    /\ sorter_pc = "check"
    /\ exit_code = "running"
    /\ ~found_best
    /\ LET no_new_result ==
               \A p \in Procs : ~(comms_sdram[p].compressor_state > COMPRESSING)
       IN  IF no_new_result
           THEN /\ \E first \in [ToBePrepared(comms_sdram) -> FirstOutcomes] :
                   \E ok \in AllocOutcomes :
                   \E rtr \in RouterOutcomes(SorterState) :
                   \E wild \in WildOutcomes(comms_sdram) :
                       Store(carry_on_binary_search(
                                 SorterState, n_bit_fields, first, ok, rtr,
                                 wild))
                /\ handled' = <<>>
           ELSE \E wild \in WildOutcomes(comms_sdram) :
                \E seen \in [MallocFailed(comms_sdram) -> BOOLEAN] :
                    LET r == ScanFrom(SorterState, <<>>, 0, wild, seen)
                    IN  Store(r.s) /\ handled' = r.log
    /\ UNCHANGED <<n_bit_fields, feasible, faults, malloc_failures_left,
                   sorter_pc>>
    /\ UNCHANGED <<min_vars, filter_vars, timer_vars>>

-----------------------------------------------------------------------------
\* The compressor cores, each one acting on its own slot of comms_sdram.

WorkerWrites(p, state, tables) ==
    /\ exit_code = "running"
    /\ comms_sdram' = [comms_sdram EXCEPT ![p].compressor_state = state,
                                          ![p].routing_tables = tables]
    /\ malloc_failures_left' =
           IF state = FAILED_MALLOC THEN malloc_failures_left - 1
           ELSE malloc_failures_left
    /\ handled' = <<>>
    /\ UNCHANGED <<n_bit_fields, best_success, lowest_failure,
                   tested_mid_points, last_malloc_failed,
                   last_compressed_table, found_best, exit_code,
                   router_entries, router_loads, router_status, sorter_pc,
                   feasible, faults>>
    /\ UNCHANGED <<min_vars, filter_vars, timer_vars>>

\* the compressor sees PREPARE and clears its last result
WorkerAck(p) ==
    /\ comms_sdram[p].sorter_instruction = PREPARE
    /\ comms_sdram[p].compressor_state # PREPARED
    /\ WorkerWrites(p, PREPARED, comms_sdram[p].routing_tables)

\* the compressor sees RUN and starts on the mid point of its slot
WorkerStart(p) ==
    /\ comms_sdram[p].sorter_instruction = RUN
    /\ comms_sdram[p].compressor_state = PREPARED
    /\ WorkerWrites(p, COMPRESSING, comms_sdram[p].routing_tables)

\* the results a compression of this mid point may end with
Results(mid_point) ==
    (IF mid_point \in feasible THEN {SUCCESSFUL_COMPRESSION}
                               ELSE {FAILED_TO_COMPRESS})
        \cup (IF "worker_malloc" \in faults /\ malloc_failures_left > 0
              THEN {FAILED_MALLOC} ELSE {})
        \cup (IF "worker_timeout" \in faults THEN {RAN_OUT_OF_TIME} ELSE {})

\* the compression ends by itself, whatever the sorter has asked meanwhile
WorkerFinish(p) ==
    /\ comms_sdram[p].compressor_state = COMPRESSING
    /\ \E result \in Results(comms_sdram[p].mid_point) :
           WorkerWrites(p, result,
                        IF result = SUCCESSFUL_COMPRESSION
                        THEN <<comms_sdram[p].mid_point,
                               CompressedSize(comms_sdram[p].mid_point)>>
                        ELSE comms_sdram[p].routing_tables)

\* the compressor sees FORCE_TO_STOP and gives up
WorkerForcedStop(p) ==
    /\ comms_sdram[p].sorter_instruction = FORCE_TO_STOP
    /\ comms_sdram[p].compressor_state \in {PREPARED, COMPRESSING}
    /\ WorkerWrites(p, FORCED_BY_COMPRESSOR_CONTROL,
                    comms_sdram[p].routing_tables)

-----------------------------------------------------------------------------
\* Specifications

-----------------------------------------------------------------------------
\* set_n_merged_filters (bit_field_sorter_and_searcher.c, lines 291-337)

\* most cores of the chip that own bit-fields
MaxFilterCores == 2

FilterProcs == 0..(MaxFilterCores - 1)

\* the first loop (lines 301-312): highest_key[] after the bit-fields from
\* sorted_index on have been looked at
RECURSIVE FindHighest(_, _, _, _, _)
FindHighest(sbf, best, sorted_index, highest_order, highest_key) ==
    IF sorted_index > Len(sbf) THEN highest_key
    ELSE LET test         == sbf[sorted_index].sort_order
             processor_id == sbf[sorted_index].processor_id
         IN  IF test <= best /\ test > highest_order[processor_id]
             THEN FindHighest(
                      sbf, best, sorted_index + 1,
                      [highest_order EXCEPT ![processor_id] = test],
                      [highest_key EXCEPT
                          ![processor_id] = sbf[sorted_index].key])
             ELSE FindHighest(sbf, best, sorted_index + 1, highest_order,
                              highest_key)

\* the while loop of lines 327-330 over filters[0..index] (0-based)
RECURSIVE MergedIndex(_, _, _)
MergedIndex(keys, index, key) ==
    IF index >= 0 /\ keys[index + 1] # key
    THEN MergedIndex(keys, index - 1, key)
    ELSE index

\* set_n_merged_filters; stack: what highest_key[] holds before the first
\* loop writes it (the array is not initialised, line 292)
set_n_merged_filters(sbf, best, regions, stack) ==
    LET highest_key ==
            FindHighest(sbf, best, 1, [p \in FilterProcs |-> -1], stack)
    IN  [r_id \in DOMAIN regions |->
            [regions[r_id] EXCEPT
                !.n_merged_filters =
                    MergedIndex(regions[r_id].keys,
                                Len(regions[r_id].keys) - 1,
                                highest_key[regions[r_id].processor]) + 1]]


\* no bit-field has been read and set_n_merged_filters is not running
FilterIdle ==
    /\ sorted_bit_fields = <<>>
    /\ filter_regions = <<>>
    /\ filter_pc = "idle"

\* the sorter before c_main has run: nothing of it moves
SorterIdle ==
    /\ comms_sdram = [p \in Procs |-> EmptySlot]
    /\ n_bit_fields = 0
    /\ best_success = FAILED_TO_FIND
    /\ lowest_failure = 0
    /\ tested_mid_points = {}
    /\ last_malloc_failed = LAST_RESULT_NOT_MALLOC_FAIL
    /\ last_compressed_table = <<>>
    /\ found_best = FALSE
    /\ exit_code = "running"
    /\ router_entries = 0
    /\ router_loads = 0
    /\ router_status = "none"
    /\ sorter_pc = "idle"
    /\ feasible = {}
    /\ faults = {}
    /\ malloc_failures_left = 0
    /\ handled = <<>>
    /\ time_steps = 0
    /\ FilterIdle

MinInit == MinIdle /\ SorterIdle

MinNext ==
    \/ MinLoad
    \/ MinHistogram
    \/ MinSortTable
    \/ MinCompressGroup
    \/ MinStop
    \/ MinAgain

\* the minimiser alone, over all input tables within the bounds
MinSpec == MinInit /\ [][MinNext]_vars

\* the keys and masks of the worked examples, cut to the words of the model
ExampleWord(x) == x % Pow2(KeyBits)

\* longest table of the worked examples
MaxExampleEntries == 3

\* entries over the keys 0x00, 0x01, the masks 0xFE, 0xFF and two routes
ExampleEntries ==
    [key_mask : [key : {ExampleWord(0), ExampleWord(1)},
                 mask : {ExampleWord(254), ExampleWord(255)}],
     route : {1, 2}, source : {1}]

ExampleTables ==
    UNION {[1..n -> ExampleEntries] : n \in 0..MaxExampleEntries}

\* minimise_run is called on a table built from the example entries
ExampleInit ==
    /\ SorterIdle
    /\ \E t \in ExampleTables : table = t /\ input_table = t
    /\ routes = <<>>
    /\ routes_frequency = <<>>
    /\ write_index = 0
    /\ remaining_index = 0
    /\ left_index = 0
    /\ stop_compressing = FALSE
    /\ min_pc = "load"
    /\ min_result = "none"
    /\ min_pass = 1

ExampleNext ==
    \/ MinHistogram
    \/ MinSortTable
    \/ MinCompressGroup
    \/ MinStop
    \/ MinAgain

\* the minimiser on the tables of the worked examples
ExampleSpec == ExampleInit /\ [][ExampleNext]_vars

\* the state after initialise (lines 952-1046): n_processors compressors, in
\* the first slots, and n bit-fields of which the first k can be merged
SorterStarts(n, n_processors, may_fail, failures) ==
    /\ comms_sdram =
           [p \in Procs |->
               IF p < n_processors
               THEN [EmptySlot EXCEPT !.sorter_instruction = TO_BE_PREPARED]
               ELSE EmptySlot]
    /\ n_bit_fields = n
    /\ best_success = FAILED_TO_FIND
    /\ lowest_failure = 0
    /\ tested_mid_points = {}
    /\ last_malloc_failed = LAST_RESULT_NOT_MALLOC_FAIL
    /\ last_compressed_table = <<>>
    /\ found_best = FALSE
    /\ exit_code = "running"
    /\ router_entries = 0
    /\ router_loads = 0
    /\ router_status = "none"
    /\ sorter_pc = "start"
    /\ faults = may_fail
    /\ malloc_failures_left = failures
    /\ handled = <<>>
    /\ time_steps = 0
    /\ FilterIdle

Init ==
    /\ MinIdle
    /\ \E n \in 0..MaxBitFields : \E n_processors \in 0..MaxWorkers :
           /\ SorterStarts(n, n_processors, AllFaults, MaxMallocFailures)
           /\ \E k \in -1..n : feasible = 0..k

Next ==
    \/ StartCompressionProcess
    \/ CheckCompressors
    \/ \E p \in Procs : WorkerAck(p)
    \/ \E p \in Procs : WorkerStart(p)
    \/ \E p \in Procs : WorkerFinish(p)
    \/ \E p \in Procs : WorkerForcedStop(p)

\* the sorter and its compressors, with every kind of fault
Spec == Init /\ [][Next]_vars

\* the state after initialise when nothing can fail: at least one
\* compressor, and the mid points 0..k, k >= 0, are the ones that compress
NoFaultInit ==
    /\ MinIdle
    /\ \E n \in 0..MaxBitFields : \E n_processors \in 1..MaxWorkers :
           /\ SorterStarts(n, n_processors, {}, 0)
           /\ \E k \in 0..n : feasible = 0..k

\* the sorter and its compressors when no allocation fails, no compressor
\* runs out of time and the router takes the table
NoFaultSpec == NoFaultInit /\ [][Next]_vars

\* the greatest value of time_steps (uint32_t in the source, 2^32 - 1)
MaxTimeSteps == 3

\* timer_callback: the tick counts one more time step, wrapping round at the
\* width of the counter, and does nothing else
TimerCallback ==
    /\ time_steps' = (time_steps + 1) % (MaxTimeSteps + 1)
    /\ UNCHANGED <<min_vars, sorter_vars, filter_vars>>

TimerNext == Next \/ TimerCallback

\* the sorter, its timer and its compressors when nothing fails; the sorter
\* and the timer always get to run, a compressor may never finish
TimerSpec ==
    /\ NoFaultInit
    /\ [][TimerNext]_vars
    /\ WF_vars(StartCompressionProcess)
    /\ WF_vars(CheckCompressors)
    /\ WF_vars(TimerCallback)

\* the search of the convergence scenario: its compressors, its candidates
\* and the last mid point that compresses
ConvergenceWorkers == 4

ConvergenceBitFields == 10

ConvergenceBoundary == 5

\* FAILED_MALLOC results the compressors may give in the scenario
ConvergenceMallocFailures == 4

ConvergenceInit ==
    /\ MinIdle
    /\ SorterStarts(ConvergenceBitFields, ConvergenceWorkers,
                    {"worker_malloc"}, ConvergenceMallocFailures)
    /\ feasible = 0..ConvergenceBoundary

\* no compressor is about to start or in the middle of a compression
Settled ==
    \A p \in Procs :
        /\ comms_sdram[p].compressor_state # COMPRESSING
        /\ ~(/\ comms_sdram[p].compressor_state = PREPARED
             /\ comms_sdram[p].sorter_instruction \in {RUN, FORCE_TO_STOP})

\* the runs of the scenario in which the compressors are quick: each one ends
\* its compression before the next pass of the sorter, and only its answer
\* to PREPARE may come late
ConvergenceNext ==
    \/ StartCompressionProcess
    \/ Settled /\ CheckCompressors
    \/ \E p \in Procs : WorkerAck(p)
    \/ \E p \in Procs : WorkerStart(p)
    \/ \E p \in Procs : WorkerFinish(p)

\* the sorter with four compressors that may report FAILED_MALLOC
ConvergenceSpec == ConvergenceInit /\ [][ConvergenceNext]_vars

\* the state after initialise when the only fault is a compressor that does
\* not answer its first PREPARE in time
BootstrapInit ==
    /\ MinIdle
    /\ \E n \in 0..MaxBitFields : \E n_processors \in 1..MaxWorkers :
           /\ SorterStarts(n, n_processors, {"no_reply"}, 0)
           /\ \E k \in 0..n : feasible = 0..k

\* the sorter and its compressors when compressors may be late at bootstrap
BootstrapSpec == BootstrapInit /\ [][Next]_vars

\* most compressors and bit-fields of the seeding scenarios
SeedingWorkers == 4

SeedingBitFields == 5

\* the state after initialise in the seeding scenarios: nothing can fail and
\* every mid point compresses
SeedingInit ==
    /\ MinIdle
    /\ \E n \in 0..SeedingBitFields : \E n_processors \in 1..SeedingWorkers :
           /\ SorterStarts(n, n_processors, {}, 0)
           /\ feasible = 0..n

\* the seeding of the search and the runs that follow it, with quick
\* compressors
SeedingSpec == SeedingInit /\ [][ConvergenceNext]_vars

\* the elements of a set of numbers in increasing order
RECURSIVE Ascending(_)
Ascending(S) ==
    IF S = {} THEN <<>>
    ELSE LET least == CHOOSE x \in S : \A y \in S : x <= y
         IN  <<least>> \o Ascending(S \ {least})

\* the bit-fields as the reader leaves them: the filters of a core keep the
\* order of its region, keys are distinct, and sorted_bit_fields is in
\* sort order
BitFieldsRead(n, owner, perm) ==
    /\ sorted_bit_fields =
           [i \in 1..n |-> [processor_id |-> owner[perm[i]],
                            key |-> perm[i], sort_order |-> i - 1]]
    /\ filter_regions =
           [r_id \in 1..MaxFilterCores |->
               [processor |-> r_id - 1,
                keys |-> Ascending({k \in 1..n : owner[k] = r_id - 1}),
                n_merged_filters |-> 0]]

\* handle_best_cleanup is about to call set_n_merged_filters (line 450)
FilterInit ==
    /\ MinIdle
    /\ comms_sdram = [p \in Procs |-> EmptySlot]
    /\ tested_mid_points = {}
    /\ lowest_failure = 0
    /\ last_malloc_failed = LAST_RESULT_NOT_MALLOC_FAIL
    /\ last_compressed_table = <<>>
    /\ found_best = FALSE
    /\ exit_code = "running"
    /\ router_entries = 0
    /\ router_loads = 0
    /\ router_status = "none"
    /\ sorter_pc = "cleanup"
    /\ feasible = {}
    /\ faults = {}
    /\ malloc_failures_left = 0
    /\ handled = <<>>
    /\ time_steps = 0
    /\ filter_pc = "ready"
    /\ \E n \in 0..MaxBitFields :
           /\ n_bit_fields = n
           /\ best_success \in 0..n
           /\ \E owner \in [1..n -> FilterProcs] :
                  \E perm \in [1..n -> 1..n] :
                      /\ \A i, j \in 1..n : i < j => perm[i] # perm[j]
                      /\ \A i, j \in 1..n :
                             (i < j /\ owner[perm[i]] = owner[perm[j]])
                                 => perm[i] < perm[j]
                      /\ BitFieldsRead(n, owner, perm)

SetNMergedFilters ==
    /\ filter_pc = "ready"
    /\ \E stack \in [FilterProcs -> 0..MaxBitFields] :
           filter_regions' = set_n_merged_filters(
               sorted_bit_fields, best_success, filter_regions, stack)
    /\ filter_pc' = "done"
    /\ UNCHANGED <<sorted_bit_fields, min_vars, sorter_vars, timer_vars>>

FilterNext == SetNMergedFilters

\* set_n_merged_filters over all bit-fields and values of best_success
FilterSpec == FilterInit /\ [][FilterNext]_vars

-----------------------------------------------------------------------------
\* Properties of the minimiser

MinSucceeded == min_pc = "done" /\ min_result = "true"

\* the route the router gives key k under first-match-wins lookup, 0 if none
RECURSIVE LookupFrom(_, _, _)
LookupFrom(t, k, i) ==
    IF i > Len(t) THEN 0
    ELSE IF Matches(t[i].key_mask, k) THEN t[i].route
    ELSE LookupFrom(t, k, i + 1)

Lookup(t, k) == LookupFrom(t, k, 1)

\* C1: behavioural equivalence. For every input table of at most capacity
\* entries whose routes do not overlap, a successful minimise_run leaves a
\* table no longer than the input in which every key matched by an input
\* entry of route r is routed to r under first-match-wins lookup.
C1_BehaviouralEquivalence ==
    (/\ MinSucceeded
     /\ Len(input_table) <= rtr_alloc_max
     /\ NonOverlapping(input_table))
        => /\ Len(table) <= Len(input_table)
           /\ \A i \in 1..Len(input_table) : \A k \in Words :
                  Matches(input_table[i].key_mask, k)
                      => Lookup(table, k) = input_table[i].route

\* C4: capacity. minimise_run returns true only with a table of at most
\* rtr_alloc_max entries.
C4_SuccessFitsCapacity == MinSucceeded => Len(table) <= rtr_alloc_max

\* C4 witness: an input longer than the capacity was compressed to fit
C4_Witness ==
    MinSucceeded /\ Len(input_table) > rtr_alloc_max
                 /\ Len(table) <= rtr_alloc_max

\* C5 as stated: after a successful minimise_run no two distinct entries of
\* the resulting table have intersecting keymasks.
C5_NoTwoEntriesIntersect ==
    MinSucceeded
        => \A i, j \in 1..Len(table) :
               i # j => ~keymask_intersect(table[i].key_mask,
                                           table[j].key_mask)

\* C5 amended: for an input table whose entries of different routes do not
\* intersect, while the groups are compressed no entry already written to
\* the compressed prefix [0, write_index) intersects an entry of a different
\* route that is still waiting in [left, n_entries); these are the entries
\* find_merge checks a merge against.
C5_WrittenDisjointFromRemaining ==
    (min_pc = "compress" /\ NonOverlapping(input_table))
        => \A i \in 0..(write_index - 1) :
               \A j \in left_index..(Len(table) - 1) :
                   Get(table, i).route # Get(table, j).route
                       => ~keymask_intersect(Get(table, i).key_mask,
                                             Get(table, j).key_mask)

\* C5 witness: a merged entry has been written and entries of another route
\* are still waiting
C5_Witness ==
    /\ min_pc = "compress"
    /\ NonOverlapping(input_table)
    /\ write_index > 0
    /\ left_index < Len(table)
    /\ \E i \in 0..(write_index - 1) :
           /\ Get(table, i) \notin {input_table[n] : n \in 1..Len(input_table)}
           /\ \E j \in left_index..(Len(table) - 1) :
                  Get(table, i).route # Get(table, j).route

\* C16: when minimise_run has succeeded on a table and succeeds again on
\* its own result, the second run leaves the table as it found it: the same
\* entries in the same order.
C16_Idempotent ==
    (min_pass = 2 /\ MinSucceeded) => table = input_table

\* an entry of the examples: key, mask and route
ExampleEntry(key, mask, route) ==
    [key_mask |-> [key |-> ExampleWord(key), mask |-> ExampleWord(mask)],
     route |-> route, source |-> 1]

\* how often entry e occurs in table t
Occurrences(t, e) == Cardinality({i \in 1..Len(t) : t[i] = e})

\* the two tables hold the same entries, in any order
SameEntries(t1, t2) ==
    /\ Len(t1) = Len(t2)
    /\ \A i \in 1..Len(t1) : Occurrences(t1, t1[i]) = Occurrences(t2, t1[i])

\* the first run of minimise_run has succeeded on the given input
FirstRunOf(t) == MinSucceeded /\ min_pass = 1 /\ input_table = t

AliasingExample ==
    <<ExampleEntry(0, 254, 1), ExampleEntry(1, 254, 1),
      ExampleEntry(1, 255, 2)>>

\* C17: for the input (0x00,0xFE,route 1), (0x01,0xFE,route 1),
\* (0x01,0xFF,route 2) no merge happens: the table minimise_run leaves holds
\* the three entries of the input.
C17_AliasedMergeNotPerformed ==
    FirstRunOf(AliasingExample) => SameEntries(table, AliasingExample)

TwoEntryExample == <<ExampleEntry(0, 254, 1), ExampleEntry(1, 254, 1)>>

\* C18 as stated: the table (0x00,0xFE,route 1), (0x01,0xFE,route 1) is
\* minimised to the single entry (0x00, 0xFF, route 1).
C18_MergedMaskFF ==
    FirstRunOf(TwoEntryExample) => table = <<ExampleEntry(0, 255, 1)>>

\* C18 amended: the table (0x00,0xFE,route 1), (0x01,0xFE,route 1) is
\* minimised to the single entry (0x00, 0xFE, route 1).
C18_MergedMaskFE ==
    FirstRunOf(TwoEntryExample) => table = <<ExampleEntry(0, 254, 1)>>

\* the two entries of the example have been merged into one
C18_Witness ==
    FirstRunOf(TwoEntryExample) /\ Len(table) = 1 /\ write_index = 1

\* the first run of minimise_run has returned and was not asked to stop
FirstRunReturned == min_pc = "done" /\ min_pass = 1 /\ ~stop_compressing

\* C19: a run of minimise_run that is not cancelled succeeds on an empty
\* table and leaves it empty, succeeds on a table of one entry and leaves
\* the entry as it was, and returns false, never true, once the number of
\* entries written exceeds rtr_alloc_max().
C19_EdgeCases ==
    /\ (FirstRunReturned /\ Len(input_table) = 0)
           => (min_result = "true" /\ Len(table) = 0)
    /\ (FirstRunReturned /\ Len(input_table) = 1)
           => (min_result = "true" /\ table = input_table)
    /\ (min_pc = "done" /\ write_index > rtr_alloc_max)
           => min_result = "false"

\* a run over more groups than the router holds has returned false
C19_Witness ==
    /\ FirstRunReturned
    /\ write_index > rtr_alloc_max
    /\ Len(input_table) > rtr_alloc_max
    /\ min_result = "false"

\* sort_table has just run in the first run of minimise_run
TableSorted ==
    min_pc = "compress" /\ min_pass = 1 /\ left_index = 0 /\ write_index = 0

\* C22: after sort_table the table holds the entries of the input, none lost
\* and none twice, and the entries of one route are next to each other, the
\* groups in the order of the routes array.
C22_SortTablePermutes ==
    TableSorted
        => /\ SameEntries(table, input_table)
           /\ \A i \in 1..Len(table) : \A j \in i..Len(table) :
                  \E a \in 1..Len(routes) : \E b \in a..Len(routes) :
                      table[i].route = routes[a] /\ table[j].route = routes[b]


\* the run has returned with the flag raised
StoppedRun == min_pc = "done" /\ stop_compressing

\* C35 (as stated): whenever the flag has been raised, minimise_run returns
\* false, does not remove the tail and leaves the number of entries alone
C35_StopMeansNoTailRemoval ==
    StoppedRun => min_result # "true" /\ Len(table) = Len(input_table)

\* C35 (amended): a flag that is raised when a phase starts is seen by the
\* test that ends that phase: the run returns false there (or has terminated
\* inside sort_table), starts no other phase and does not remove the tail; a
\* flag raised while the route sort runs makes the run return false after it
C35_StopSeenAtPhaseEnd ==
    [][/\ (stop_compressing /\ min_pc \in {"sort_table", "compress"})
           => /\ min_pc' = "done"
              /\ min_result' \in {"false", "swerr"}
              /\ Len(table') = Len(input_table)
       /\ (min_pc = "load" /\ min_pc' # "load" /\ stop_compressing')
           => /\ min_pc' = "done"
              /\ min_result' = "false"
              /\ table' = table]_vars

\* the flag was raised during the group loop, and the run returned false
\* with every entry still in the table
C35_Witness ==
    /\ StoppedRun
    /\ min_pass = 1
    /\ min_result = "false"
    /\ remaining_index > 0
    /\ write_index =< rtr_alloc_max
    /\ Len(table) = Len(input_table)
    /\ Len(table) > 1

\* the route values of a table
DistinctRoutes(t) == {t[i].route : i \in 1..Len(t)}

\* minimise_run has returned false out of the histogram loop
HistogramFailed ==
    /\ min_pc = "done"
    /\ min_result = "false"
    /\ ~Histogram(input_table, 0, <<>>, <<>>).ok

\* C36: the histogram fails only for a table with more than MAX_NUM_ROUTES
\* distinct routes; a table with exactly MAX_NUM_ROUTES of them is accepted
C36_HistogramFailsOnlyBeyondMax ==
    HistogramFailed => Cardinality(DistinctRoutes(input_table)) > MAX_NUM_ROUTES
-----------------------------------------------------------------------------
\* Properties of the sorter

\* start_compression_process has run: the search is on
SearchStarted == sorter_pc = "check"

\* the responses of the last pass that were a result of the given kinds
HandledWith(states) ==
    {i \in 1..Len(handled) : handled[i][2] \in states}

\* a table is loaded while the sorter is still to finish its pass or run
Loading == router_loads' # router_loads \/ router_entries' # router_entries

AllDone(c) ==
    \A p \in Procs :
        /\ c[p].sorter_instruction \notin {PREPARE, RUN, FORCE_TO_STOP}
        /\ c[p].compressor_state # COMPRESSING

\* C2: once the search has started, best_success < lowest_failure in every
\* state of the sorter, whatever the order in which the results arrive.
C2_BestBelowLowestFailure ==
    SearchStarted => best_success < lowest_failure

\* C3: with 4 compressors, 10 bit-fields, the mid points 0..5 compressing
\* and the others not, and compressors that may report FAILED_MALLOC, a run
\* that ends cleanly ends with best_success = 5.
C3_FinalisesAtBoundary ==
    exit_code = "EXITED_CLEANLY" => best_success = ConvergenceBoundary

\* C20: when the mid points 0..N* compress and the others do not, no
\* allocation fails and no compressor runs out of time, a run that ends
\* cleanly, with any number of compressors and in any interleaving, ends
\* with best_success = N*.
C20_NoFaultFinalisesAtBoundary ==
    exit_code = "EXITED_CLEANLY" => feasible = 0..best_success

\* C6: a SUCCESSFUL_COMPRESSION read from a processor whose instruction was
\* already FORCE_TO_STOP is handled as a success: after the pass best_success
\* is at least its mid point and last_compressed_table is the table of
\* best_success.
C6_LateSuccessAdopted ==
    \A i \in HandledWith({SUCCESSFUL_COMPRESSION}) :
        handled[i][4] = FORCE_TO_STOP
            => /\ best_success >= handled[i][3]
               /\ last_compressed_table =
                      <<best_success, CompressedSize(best_success)>>

\* a late success, better than every result before it, has just been adopted
C6_Witness ==
    \E i \in HandledWith({SUCCESSFUL_COMPRESSION}) :
        /\ handled[i][4] = FORCE_TO_STOP
        /\ handled[i][3] > 0
        /\ best_success = handled[i][3]
        /\ last_compressed_table =
               <<handled[i][3], CompressedSize(handled[i][3])>>
        /\ lowest_failure < best_success

\* C7: the router is written by one step only, the one in which the sorter
\* finishes: before it nothing was loaded, no processor has the instruction
\* PREPARE, RUN or FORCE_TO_STOP or is compressing, and after it the sorter
\* is not running any more.
C7_RouterWrittenOnceAtTheEnd ==
    [][Loading => /\ router_loads = 0
                  /\ router_entries = 0
                  /\ router_loads' = 1
                  /\ AllDone(comms_sdram)
                  /\ AllDone(comms_sdram')
                  /\ exit_code = "running"
                  /\ exit_code' # "running"]_vars

\* the table of a search that used two compressors has been loaded
C7_Witness ==
    /\ router_status = "loaded"
    /\ router_loads = 1
    /\ router_entries = TableSize(last_compressed_table)
    /\ router_entries > 0
    /\ best_success > 0
    /\ Cardinality({p \in Procs :
                       comms_sdram[p].sorter_instruction = DO_NOT_USE}) >= 2

\* C8: when rtr_alloc_id or rtr_mc_set has failed, the exit code is not
\* EXITED_CLEANLY.
C8_RouterFailureIsFatal ==
    router_status \in {"alloc_failed", "set_failed"}
        => exit_code # "EXITED_CLEANLY"

\* C9: when the sorter has ended, the router holds all the entries of
\* last_compressed_table or none.
C9_InstallAllOrNothing ==
    exit_code # "running"
        => router_entries \in {0, TableSize(last_compressed_table)}

Dispatched(p) ==
    \/ /\ comms_sdram'[p].sorter_instruction = RUN
       /\ comms_sdram[p].sorter_instruction # RUN
    \/ /\ comms_sdram'[p].mid_point >= 0
       /\ comms_sdram'[p].mid_point # comms_sdram[p].mid_point

\* C11: a slot is given RUN or a new mid point only when its instruction was
\* PREPARE with the compressor PREPARED, or when it was TO_BE_PREPARED and
\* the compressor answered the first PREPARE in this step; in both cases the
\* compressor is PREPARED when the attempt is handed over, so no attempt is
\* running and no result is waiting in the slot.
C11_RunOnlyWhenPrepared ==
    [][\A p \in Procs :
           Dispatched(p)
               => /\ comms_sdram'[p].compressor_state = PREPARED
                  /\ \/ /\ comms_sdram[p].sorter_instruction = PREPARE
                        /\ comms_sdram[p].compressor_state = PREPARED
                     \/ comms_sdram[p].sorter_instruction = TO_BE_PREPARED]_vars

\* the only compressor has had a result handled and is running again
C11_Witness ==
    /\ best_success >= 0
    /\ \E p \in Procs :
           /\ comms_sdram[p].sorter_instruction = RUN
           /\ comms_sdram[p].compressor_state = COMPRESSING
           /\ comms_sdram[p].mid_point > 0
           /\ \A q \in Procs \ {p} :
                  comms_sdram[q].sorter_instruction = NOT_COMPRESSOR


\* C12: in every step taken after the search has started, best_success does
\* not decrease and lowest_failure does not increase.
C12_BoundsMoveOneWay ==
    [][SearchStarted => /\ best_success' >= best_success
                        /\ lowest_failure' <= lowest_failure]_vars

\* a success below the best one has just been handled and left best_success
\* alone, and a failure has lowered lowest_failure
C12_Witness ==
    /\ \E i \in HandledWith({SUCCESSFUL_COMPRESSION}) :
           handled[i][3] >= 0 /\ handled[i][3] < best_success
    /\ lowest_failure < n_bit_fields
    /\ exit_code = "running"


\* C13 as stated: the set of tested mid points only grows; a bit once set is
\* never cleared.
C13_TestedOnlyGrows ==
    [][SearchStarted => tested_mid_points \subseteq tested_mid_points']_vars

\* C13 amended: the bit of every mid point that a compressor has been told
\* to run, or to stop running, is set; the bit of a mid point whose attempt
\* failed by malloc is cleared again.
C13_RunningMidPointsTested ==
    \A p \in Procs :
        comms_sdram[p].sorter_instruction \in {RUN, FORCE_TO_STOP}
            => comms_sdram[p].mid_point \in tested_mid_points

\* a mid point was cleared after a FAILED_MALLOC and is being run again by
\* another compressor
C13_Witness ==
    /\ last_malloc_failed > 0
    /\ last_malloc_failed \in tested_mid_points
    /\ \E p \in Procs :
           /\ comms_sdram[p].sorter_instruction = RUN
           /\ comms_sdram[p].mid_point = last_malloc_failed


\* C14: a slot whose sorter_instruction is DO_NOT_USE keeps that instruction
\* in every later step.
C14_DoNotUseIsTerminal ==
    [][\A p \in Procs :
           comms_sdram[p].sorter_instruction = DO_NOT_USE
               => comms_sdram'[p].sorter_instruction = DO_NOT_USE]_vars


\* C21: every response the sorter handles belongs to an attempt that is still
\* on the slot: process_compressor_response is never run for a slot whose
\* mid_point is -1, that is, for a result it has handled before.
C21_HandledOnce ==
    \A i \in 1..Len(handled) : handled[i][3] >= 0

\* the sorter is in the loop of check_compressors and no slot holds a result:
\* the next pass calls carry_on_binary_search
CarriesOn ==
    /\ sorter_pc = "check"
    /\ exit_code = "running"
    /\ ~found_best
    /\ \A p \in Procs : ~(comms_sdram[p].compressor_state > COMPRESSING)

\* the mid point locate_next_mid_point returns in this state
NextMidPoint ==
    locate_next_mid_point(tested_mid_points, best_success, lowest_failure,
                          n_bit_fields)

\* carry_on_binary_search comes to lines 641-642 with a mid point to test
Dispatches ==
    /\ CarriesOn
    /\ ~all_compressor_processors_done(comms_sdram)
    /\ ~all_compressor_processors_busy(comms_sdram)
    /\ NextMidPoint >= 0

\* C23: when carry_on_binary_search sets a compressor off on a mid point, the
\* processor id it passes to malloc_tables_and_set_off_bit_compressor is the
\* index of a slot, never FAILED_TO_FIND, whatever the outcome of a first
\* preparation.
C23_DispatchTargetsSlot ==
    Dispatches
        => \A first \in [ToBePrepared(comms_sdram) -> FirstOutcomes] :
               find_compressor_processor_and_set_tracker(
                   SorterState, NextMidPoint, first).p \in Procs

\* the last pass of check_compressors handled a response of processor p
Reported(p) == \E i \in 1..Len(handled') : handled'[i][1] = p

\* the mid points of the successes the last pass handled
SuccessesHandled ==
    {handled'[i][3] : i \in {j \in 1..Len(handled') :
                               handled'[j][2] = SUCCESSFUL_COMPRESSION}}

\* the mid points of the failures to compress the last pass handled
FailuresHandled ==
    {handled'[i][3] : i \in {j \in 1..Len(handled') :
                               handled'[j][2] \in {FAILED_TO_COMPRESS,
                                                   RAN_OUT_OF_TIME}}}

\* processor p was running and the pass did not handle a response of its own
RunsOn(p) == comms_sdram[p].sorter_instruction = RUN /\ ~Reported(p)

\* C24: after a pass that handles a SUCCESSFUL_COMPRESSION at mid point N,
\* every processor that was running (RUN) a mid point below N has
\* FORCE_TO_STOP, and a processor running a mid point >= N is still on RUN
\* (when the pass handled nothing but successes at or below its mid point).
C24_SuccessStopsLower ==
    [][\A p \in Procs :
           RunsOn(p)
               => /\ (\E N \in SuccessesHandled : comms_sdram[p].mid_point < N)
                         => comms_sdram'[p].sorter_instruction = FORCE_TO_STOP
                  /\ (/\ SuccessesHandled # {}
                      /\ FailuresHandled = {}
                      /\ \A N \in SuccessesHandled :
                             comms_sdram[p].mid_point >= N)
                         => comms_sdram'[p].sorter_instruction = RUN]_vars

\* a success at a mid point above 0 was the only response of the pass and the
\* other search, on a lower mid point, has been told to stop
C24_Witness ==
    /\ Len(handled) = 1
    /\ handled[1][2] = SUCCESSFUL_COMPRESSION
    /\ handled[1][3] > 0
    /\ \E p \in Procs :
           /\ p # handled[1][1]
           /\ comms_sdram[p].sorter_instruction = FORCE_TO_STOP
           /\ comms_sdram[p].mid_point \in 0..(handled[1][3] - 1)

\* the least of a non-empty set of numbers
Least(S) == CHOOSE x \in S : \A y \in S : x <= y

\* C25: after a pass that handles FAILED_TO_COMPRESS or RAN_OUT_OF_TIME at
\* mid points N > 0, lowest_failure is the least of its old value and those
\* N, every processor that was running a mid point above such an N has
\* FORCE_TO_STOP, and a processor running a mid point <= N is still on RUN
\* (when the pass handled nothing but failures at or above its mid point).
C25_FailureStopsHigher ==
    [][(FailuresHandled # {} /\ \A N \in FailuresHandled : N > 0)
           => /\ lowest_failure' = Least(FailuresHandled \cup {lowest_failure})
              /\ \A p \in Procs :
                     RunsOn(p)
                         => /\ (\E N \in FailuresHandled :
                                    comms_sdram[p].mid_point > N)
                                   => comms_sdram'[p].sorter_instruction
                                          = FORCE_TO_STOP
                            /\ (/\ SuccessesHandled = {}
                                /\ \A N \in FailuresHandled :
                                       comms_sdram[p].mid_point <= N)
                                   => comms_sdram'[p].sorter_instruction
                                          = RUN]_vars

\* a failure at a mid point above 0 was the only response of the pass, it has
\* lowered lowest_failure and the other search, on a higher mid point, has
\* been told to stop
C25_Witness ==
    /\ Len(handled) = 1
    /\ handled[1][2] \in {FAILED_TO_COMPRESS, RAN_OUT_OF_TIME}
    /\ handled[1][3] > 0
    /\ lowest_failure = handled[1][3]
    /\ lowest_failure < n_bit_fields
    /\ \E p \in Procs :
           /\ p # handled[1][1]
           /\ comms_sdram[p].sorter_instruction = FORCE_TO_STOP
           /\ comms_sdram[p].mid_point > handled[1][3]

\* the table a compressor leaves for a mid point
TableOf(mid_point) == <<mid_point, CompressedSize(mid_point)>>

\* C26: a pass changes last_compressed_table or best_success only when it
\* handles a SUCCESSFUL_COMPRESSION at a mid point above best_success, and
\* then to that mid point and its table; a success at a mid point at or below
\* best_success leaves both as they were; in both cases the reporting slot
\* no longer holds the table.
C26_AdoptOnlyBetter ==
    [][/\ (\/ last_compressed_table' # last_compressed_table
           \/ best_success' # best_success)
          => /\ \E N \in SuccessesHandled : N > best_success
             /\ best_success' \in SuccessesHandled
             /\ \A N \in SuccessesHandled : N <= best_success'
             /\ last_compressed_table' = TableOf(best_success')
       /\ \A i \in 1..Len(handled') :
              handled'[i][2] = SUCCESSFUL_COMPRESSION
                  => comms_sdram'[handled'[i][1]].routing_tables = <<>>]_vars

\* a success below best_success was the only response of the pass: its table
\* is gone and the table of best_success is still the one kept
C26_Witness ==
    /\ Len(handled) = 1
    /\ handled[1][2] = SUCCESSFUL_COMPRESSION
    /\ handled[1][3] \in 0..(best_success - 1)
    /\ comms_sdram[handled[1][1]].routing_tables = <<>>
    /\ last_compressed_table = TableOf(best_success)

\* a pass handled one response only, a FAILED_MALLOC at the mid point N > 0
\* that last_malloc_failed recorded before the pass
RepeatedMallocFailure ==
    /\ Len(handled') = 1
    /\ handled'[1][2] = FAILED_MALLOC
    /\ handled'[1][3] > 0
    /\ handled'[1][3] = last_malloc_failed

\* C27: when the sorter handles a FAILED_MALLOC at the mid point N # 0 at
\* which the last handled response was a FAILED_MALLOC too, the bit of N in
\* tested_mid_points stays set.
C27_RepeatedFailureKeepsBit ==
    [][RepeatedMallocFailure
           => handled'[1][3] \in tested_mid_points']_vars

\* a pass handled one response only, a FAILED_MALLOC at a mid point N >= 0
SingleMallocFailure ==
    /\ Len(handled') = 1
    /\ handled'[1][2] = FAILED_MALLOC
    /\ handled'[1][3] >= 0
    /\ exit_code' = "running"

UntestedRuns(tested, best, lowest) ==
    {r \in ((best + 1)..(lowest - 1)) \X ((best + 1)..(lowest - 1)) :
        /\ r[1] <= r[2]
        /\ \A i \in r[1]..r[2] : i \notin tested
        /\ (r[1] - 1 > best => (r[1] - 1) \in tested)
        /\ (r[2] + 1 < lowest => (r[2] + 1) \in tested)}

RunLength(r) == r[2] - r[1] + 1

\* the longest of the runs
LongestRuns(runs) ==
    {r \in runs : \A q \in runs : RunLength(q) <= RunLength(r)}

\* the middle of a run: end - floor(length / 2)
MiddleOf(r) == r[2] - (RunLength(r) \div 2)

\* C29 as stated: locate_next_mid_point returns the middle of a longest
\* maximal run of untested indices strictly between best_success and
\* lowest_failure, and FAILED_TO_FIND exactly when there is no such index.
C29_MiddleOfLongestRun ==
    Dispatches \/ (CarriesOn /\ NextMidPoint = FAILED_TO_FIND)
        => LET runs == UntestedRuns(tested_mid_points, best_success,
                                    lowest_failure)
           IN  IF runs = {} THEN NextMidPoint = FAILED_TO_FIND
               ELSE \E r \in LongestRuns(runs) : NextMidPoint = MiddleOf(r)

\* the runs the scan of locate_next_mid_point records: maximal runs of
\* untested indices in best + 1 .. lowest that a tested index, at or below
\* lowest, follows
ClosedRuns(tested, best, lowest) ==
    {r \in ((best + 1)..lowest) \X ((best + 1)..lowest) :
        /\ r[1] <= r[2]
        /\ \A i \in r[1]..r[2] : i \notin tested
        /\ (r[1] - 1 > best => (r[1] - 1) \in tested)
        /\ r[2] + 1 <= lowest
        /\ (r[2] + 1) \in tested}

\* the runs of the present state
Runs == ClosedRuns(tested_mid_points, best_success, lowest_failure)

\* locate_next_mid_point comes to its scan: the bits of 0 and of n_bit_fields
\* are set and there are bit-fields
Scans ==
    /\ sorter_pc = "check"
    /\ 0 \in tested_mid_points
    /\ n_bit_fields > 0
    /\ n_bit_fields \in tested_mid_points

\* C29 amended: locate_next_mid_point returns 0 when the bit of 0 is clear;
\* otherwise FAILED_TO_FIND when there are no bit-fields; otherwise
\* n_bit_fields when its bit is clear; otherwise the middle, end -
\* floor(length / 2), of a longest maximal run of untested indices above
\* best_success that a tested index at or below lowest_failure follows, and
\* FAILED_TO_FIND exactly when there is no such run.
C29_SpecialCasesThenLongestRun ==
    sorter_pc = "check"
        => IF 0 \notin tested_mid_points THEN NextMidPoint = 0
           ELSE IF n_bit_fields = 0 THEN NextMidPoint = FAILED_TO_FIND
           ELSE IF n_bit_fields \notin tested_mid_points
           THEN NextMidPoint = n_bit_fields
           ELSE IF Runs = {} THEN NextMidPoint = FAILED_TO_FIND
           ELSE \E r \in LongestRuns(Runs) : NextMidPoint = MiddleOf(r)

\* carry_on_binary_search is about to set a compressor off on the middle of
\* a run of two or more untested mid points
C29_Witness ==
    /\ Dispatches
    /\ Scans
    /\ \E r \in LongestRuns(Runs) :
           RunLength(r) >= 2 /\ NextMidPoint = MiddleOf(r)

\* two or more of the runs have the greatest length
Tie == Scans /\ Cardinality(LongestRuns(Runs)) >= 2

\* C30 as stated: when two or more runs have the greatest length, the mid
\* point locate_next_mid_point returns lies in the last of them.
C30_LaterRunWins ==
    Tie => \E r \in LongestRuns(Runs) :
               /\ \A q \in LongestRuns(Runs) : q[1] <= r[1]
               /\ NextMidPoint \in r[1]..r[2]

\* C30 amended: when two or more runs have the greatest length, the mid
\* point locate_next_mid_point returns lies in the first of them.
C30_EarlierRunWins ==
    Tie => \E r \in LongestRuns(Runs) :
               /\ \A q \in LongestRuns(Runs) : r[1] <= q[1]
               /\ NextMidPoint \in r[1]..r[2]

\* carry_on_binary_search is about to choose between two runs of one length
C30_Witness == Tie /\ Dispatches

\* start_compression_process has just run
Seeded == sorter_pc = "start" /\ sorter_pc' = "check"

\* the mid points the slots on RUN hold after the step
SeededMidPoints ==
    {comms_sdram'[p].mid_point :
         p \in {q \in Procs : comms_sdram'[q].sorter_instruction = RUN}}

SeedStep(m, w) == IF m \div w < 1 THEN 1 ELSE m \div w

\* M, M - s, M - 2s, ... with the one step s = SeedStep(M, W): at most W mid
\* points, those that are >= 1
ConstantStepSeeds(M, W) ==
    {m \in 1..M : \E i \in 0..(W - 1) : m = M - i * SeedStep(M, W)}

\* the mid points of the loop of start_binary_search: each step is taken
\* from the mid point just used and the compressors still to be used
RECURSIVE ShrinkingStepSeeds(_, _)
ShrinkingStepSeeds(m, w) ==
    IF w <= 0 \/ m <= 0 THEN {}
    ELSE {m} \cup ShrinkingStepSeeds(m - SeedStep(m, w), w - 1)

\* the compressors left for start_binary_search when the first one has
\* taken mid point 0
SeedWorkers == Cardinality(ToBePrepared(comms_sdram)) - 1

\* C32 as stated: after mid point 0, start_binary_search sets compressors
\* off on M, M - s, M - 2s, ... with the constant step s = max(1, M div W).
C32_ConstantStepSeeding ==
    [][Seeded => SeededMidPoints \ {0}
                     = ConstantStepSeeds(n_bit_fields, SeedWorkers)]_vars

\* C32 amended: after mid point 0, start_binary_search sets at most W
\* compressors off, on distinct mid points >= 1: M first, and after a mid
\* point m with w compressors still to use, m - max(1, m div w).
C32_ShrinkingStepSeeding ==
    [][Seeded
           => /\ SeededMidPoints \ {0}
                     = ShrinkingStepSeeds(n_bit_fields, SeedWorkers)
              /\ Cardinality(SeededMidPoints \ {0}) <= SeedWorkers
              /\ \A p, q \in Procs :
                     (/\ p # q
                      /\ comms_sdram'[p].sorter_instruction = RUN
                      /\ comms_sdram'[q].sorter_instruction = RUN)
                         => comms_sdram'[p].mid_point
                                # comms_sdram'[q].mid_point]_vars

\* five bit-fields were seeded over four compressors: 0, 5, 4 and 2
C32_Witness ==
    /\ n_bit_fields = 5
    /\ sorter_pc = "check"
    /\ {comms_sdram[p].mid_point : p \in Procs} = {0, 5, 4, 2}
    /\ \A p \in Procs : comms_sdram[p].sorter_instruction = RUN

\* the first preparation of processor p has timed out in this step
TimedOut(p) ==
    /\ comms_sdram[p].sorter_instruction = TO_BE_PREPARED
    /\ comms_sdram'[p].sorter_instruction = DO_NOT_USE

\* processor p was retired at its first preparation
Unresponsive(p) ==
    /\ comms_sdram[p].sorter_instruction = DO_NOT_USE
    /\ comms_sdram[p].compressor_state = UNUSED

\* C33: a TO_BE_PREPARED compressor that does not reach PREPARED within the
\* polls of its first preparation is set to DO_NOT_USE, stays so and is never
\* sent RUN, and the sorter goes on to the next compressor still to be
\* prepared.
C33_UnresponsiveRetired ==
    [][\A p \in Procs :
           /\ TimedOut(p)
                 => /\ comms_sdram'[p].compressor_state # PREPARED
                    /\ \A q \in (p + 1)..(MAX_PROCESSORS - 1) :
                           (/\ comms_sdram[q].sorter_instruction
                                   = TO_BE_PREPARED
                            /\ \A r \in (p + 1)..(q - 1) :
                                   comms_sdram[r].sorter_instruction
                                       # TO_BE_PREPARED)
                               => comms_sdram'[q].sorter_instruction
                                      # TO_BE_PREPARED
           /\ Unresponsive(p)
                 => /\ comms_sdram'[p].sorter_instruction = DO_NOT_USE
                    /\ comms_sdram'[p].compressor_state = UNUSED]_vars

\* the first compressor did not answer and the second one has been set off on
\* mid point 0 in its place
C33_Witness ==
    /\ sorter_pc = "check"
    /\ comms_sdram[0].sorter_instruction = DO_NOT_USE
    /\ comms_sdram[0].compressor_state = UNUSED
    /\ comms_sdram[1].sorter_instruction = RUN
    /\ comms_sdram[1].mid_point = 0
    /\ exit_code = "running"


\* ticks of the timer that a compressor may spend on one mid point
WorkBudget == 2

\* compressor p is still compressing after its work budget of timer ticks
Overdue(p) ==
    /\ comms_sdram[p].sorter_instruction = RUN
    /\ comms_sdram[p].compressor_state = COMPRESSING
    /\ time_steps >= WorkBudget

\* C34: a compressor that is still compressing when the timer has counted
\* more ticks than its work budget is eventually sent FORCE_TO_STOP, unless
\* it stops compressing by itself: the sorter does not wait for it for ever
C34_OverdueForcedToStop ==
    \A p \in Procs :
        Overdue(p) ~> \/ comms_sdram[p].sorter_instruction = FORCE_TO_STOP
                      \/ comms_sdram[p].compressor_state # COMPRESSING

\* C37: in every reachable state locate_next_mid_point returns FAILED_TO_FIND
\* or an index of 0 .. n_bit_fields whose bit of tested_mid_points is clear;
\* it never comes to its error branch
C37_NeverRetests ==
    \/ NextMidPoint = FAILED_TO_FIND
    \/ /\ NextMidPoint \in 0..n_bit_fields
       /\ NextMidPoint \notin tested_mid_points

\* the sorter is about to test a mid point that lies between two tested ones
C37_Witness ==
    /\ Dispatches
    /\ NextMidPoint - 1 \in tested_mid_points
    /\ NextMidPoint + 1 \in tested_mid_points
    /\ NextMidPoint \notin tested_mid_points

\* the sorter has given processor p a mid point and not yet taken its result
Attempting(p) ==
    comms_sdram[p].sorter_instruction \in {RUN, FORCE_TO_STOP}

\* C38: no two distinct processors have RUN or FORCE_TO_STOP with the same
\* mid point
C38_OneAttemptPerMidPoint ==
    \A p, q \in Procs :
        (p # q /\ Attempting(p) /\ Attempting(q))
            => comms_sdram[p].mid_point # comms_sdram[q].mid_point

\* two processors have a mid point each, one on RUN and one already sent
\* FORCE_TO_STOP
C38_Witness ==
    \E p, q \in Procs :
        /\ comms_sdram[p].sorter_instruction = RUN
        /\ comms_sdram[q].sorter_instruction = FORCE_TO_STOP
        /\ comms_sdram[p].mid_point >= 0
        /\ comms_sdram[q].mid_point >= 0
        /\ comms_sdram[p].mid_point # comms_sdram[q].mid_point

\* the sorter has ended without a successful attempt
EndedWithoutSuccess ==
    exit_code # "running" /\ best_success = FAILED_TO_FIND

\* C39 (as stated): last_compressed_table, when set, is the table of the
\* attempt at best_success; the router is written only with best_success >= 0;
\* a run that ends without a success ends with RTE_SWERR and writes nothing
C39_BestInstalledElseSwerr ==
    /\ last_compressed_table # <<>>
           => best_success >= 0 /\ last_compressed_table = TableOf(best_success)
    /\ router_loads > 0 => best_success >= 0
    /\ EndedWithoutSuccess
           => exit_code = "RTE_SWERR" /\ router_loads = 0 /\ router_entries = 0

\* C39 (amended): as stated, but a run that ends without a success ends with
\* any exit code except EXITED_CLEANLY, and writes nothing to the router
C39_BestInstalledElseFatal ==
    /\ last_compressed_table # <<>>
           => best_success >= 0 /\ last_compressed_table = TableOf(best_success)
    /\ router_loads > 0 => best_success >= 0
    /\ EndedWithoutSuccess
           => /\ exit_code \in {"RTE_SWERR", "EXIT_FAIL", "EXIT_MALLOC",
                                "RTE_ABORT"}
              /\ router_loads = 0
              /\ router_entries = 0
              /\ router_status = "none"

\* the run has ended cleanly with the table of a mid point above 0 in the
\* router
C39_Witness ==
    /\ exit_code = "EXITED_CLEANLY"
    /\ best_success > 0
    /\ last_compressed_table = TableOf(best_success)
    /\ router_status = "loaded"
    /\ router_entries = TableSize(last_compressed_table)
-----------------------------------------------------------------------------
\* Properties of set_n_merged_filters

\* the bit-fields of a core whose sort_order is <= best_success
MergedOf(processor) ==
    {i \in 1..Len(sorted_bit_fields) :
        /\ sorted_bit_fields[i].processor_id = processor
        /\ sorted_bit_fields[i].sort_order <= best_success}

\* C15: when set_n_merged_filters has run, the n_merged_filters of every
\* core is the number of its bit-fields whose sort_order is <= best_success.
C15_MergedFiltersCounted ==
    filter_pc = "done"
        => \A r_id \in DOMAIN filter_regions :
               filter_regions[r_id].n_merged_filters =
                   Cardinality(MergedOf(filter_regions[r_id].processor))



\* the n_merged_filters of the regions r_id .. MaxFilterCores, summed
RECURSIVE MergedFrom(_)
MergedFrom(r_id) ==
    IF r_id > Len(filter_regions) THEN 0
    ELSE filter_regions[r_id].n_merged_filters + MergedFrom(r_id + 1)

\* the bit-fields of a core that come before best_success in the sort order
BeforeBest(processor) ==
    {i \in 1..Len(sorted_bit_fields) :
        /\ sorted_bit_fields[i].processor_id = processor
        /\ sorted_bit_fields[i].sort_order < best_success}

\* C40: when set_n_merged_filters has run, the n_merged_filters of all cores
\* add up to best_success, each core reporting its bit-fields with
\* sort_order < best_success; with best_success = 0 every core reports 0
C40_MergedCountIsBestSuccess ==
    filter_pc = "done"
        => /\ MergedFrom(1) = best_success
           /\ \A r_id \in DOMAIN filter_regions :
                  filter_regions[r_id].n_merged_filters =
                      Cardinality(BeforeBest(filter_regions[r_id].processor))

====
